---- MODULE Spec2Model ----
(***************************************************************************)
(* A model of the parallel interval-counting drivers of reat               *)
(* (cli/roi/run.rs process/doiter, rada/run/regions.rs run), of the hooks  *)
(* engine and of the stranding engine.                                     *)
(***************************************************************************)
EXTENDS Integers, Sequences, FiniteSets, TLC

\* ------------------------------------------------------------------ bounds
NThreads == 2
NItems == 2
MaxBatch == 2
MaxPredictors == 2
MaxStats == 2
MaxFilters == 2
MaxLen == 3
MaxOps == 5
MaxCount == 2
MaxRois == 2
MaxChars == 3

Threads == 1..NThreads

\* ------------------------------------------------------------ option values
\* Option<T> is a sequence of length 0 (None) or 1 (Some).
None == << >>
Some(x) == << x >>
IsSome(o) == Len(o) = 1
Unwrap(o) == o[1]

\* --------------------------------------------------------- sequence helpers
RECURSIVE SumSeq(_)
SumSeq(s) == IF s = << >> THEN 0 ELSE Head(s) + SumSeq(Tail(s))

RECURSIVE Flatten(_)
Flatten(ss) == IF ss = << >> THEN << >> ELSE Head(ss) \o Flatten(Tail(ss))

MapSeq(s, Op(_)) == [i \in 1..Len(s) |-> Op(s[i])]

Range(s) == {s[i] : i \in 1..Len(s)}

RECURSIVE Perms(_)
Perms(S) ==
    IF S = {} THEN {<< >>}
    ELSE UNION {{<<x>> \o p : p \in Perms(S \ {x})} : x \in S}

\* ------------------------------------------------------------------ tallies
\* The A->G and T->C channels of a mismatch matrix: A.A, A.G, T.T, T.C.
Tally(aa, ag, tt, tc) == [AA |-> aa, AG |-> ag, TT |-> tt, TC |-> tc]
coverage(mm) == mm.AA + mm.AG + mm.TT + mm.TC
mismatches(mm) == mm.AG + mm.TC

TZero == Tally(0, 0, 0, 0)
TA2G == Tally(8, 8, 0, 0)
TT2C == Tally(0, 0, 8, 8)
TLow == Tally(100, 4, 0, 0)

\* ------------------------------------------------------ single precision (f32)
\* Counts are whole numbers below 2^24, which f32 holds exactly, so that sums and
\* comparisons of counts are exact and only the division rounds. A quotient p / q
\* with 0 <= p <= q is the pair <<m, e>> that stands for m * 2^-(e + 23), where m
\* has F32Bits bits (or is 0): the quotient rounded to the nearest, ties to even.
F32Bits == 24

RECURSIVE Pow2(_)
Pow2(n) == IF n = 0 THEN 1 ELSE 2 * Pow2(n - 1)

\* The least e with p * 2^e >= q, for 0 < p <= q.
RECURSIVE F32Exp(_, _)
F32Exp(p, q) == IF p >= q THEN 0 ELSE 1 + F32Exp(2 * p, q)

\* Long division: bits more bits of the quotient after m, r being the remainder.
RECURSIVE F32Digits(_, _, _, _)
F32Digits(m, r, q, bits) ==
    IF bits = 0 THEN <<m, r>>
    ELSE IF 2 * r >= q THEN F32Digits(2 * m + 1, 2 * r - q, q, bits - 1)
    ELSE F32Digits(2 * m, 2 * r, q, bits - 1)

\* mismatches / coverage
F32Div(p, q) ==
    IF p = 0 THEN <<0, 0>>
    ELSE LET rounded(e, d) ==
                 LET up == 2 * d[2] > q \/ (2 * d[2] = q /\ d[1] % 2 = 1)
                     m == IF up THEN d[1] + 1 ELSE d[1]
                 IN IF m = Pow2(F32Bits) THEN <<Pow2(F32Bits - 1), e - 1>> ELSE <<m, e>>
         IN CHOOSE quotient \in
                {rounded(e, d) : <<e, d>> \in
                    {<<x, F32Digits(1, p * Pow2(x) - q, q, F32Bits - 1)>> : x \in {F32Exp(p, q)}}} : TRUE

\* a > b and a >= b for two quotients
F32Gt(a, b) ==
    \E x \in {a}, y \in {b} :
        IF x[1] = 0 THEN FALSE
        ELSE IF y[1] = 0 THEN TRUE
        ELSE x[2] < y[2] \/ (x[2] = y[2] /\ x[1] > y[1])

F32Ge(a, b) == \E x \in {a}, y \in {b} : x = y \/ F32Gt(x, y)

\* ------------------------------------------------- editing-index strand call
minmismatches == 8
minfreq == <<1, 20>>

\* StrandByAtoIEditing::new(minmismatches, minfreq), minfreq given as num / den
StrandByAtoIEditing(minmm, num, den) ==
    [minmismatches |-> minmm, minfreq |-> F32Div(num, den)]

editedBy_exclusive(self, matches, mism) ==
    LET cov == mism + matches
    IN /\ cov > 0
       /\ mism > self.minmismatches
       /\ F32Ge(F32Div(mism, cov), self.minfreq)

\* coverage > f32::EPSILON && mismatches >= minmismatches && mismatches / coverage >= minfreq
editedBy(self, matches, mism) ==
    LET cov == mism + matches
    IN /\ cov > 0
       /\ mism >= self.minmismatches
       /\ F32Ge(F32Div(mism, cov), self.minfreq)

roipredBy_biased(self, mm) ==
    LET a2g == editedBy(self, mm.AA, mm.AG)
        t2c == editedBy(self, mm.TT, mm.TC)
    IN CASE ~a2g /\ ~t2c -> "U"
         [] ~a2g /\ t2c -> "R"
         [] a2g /\ ~t2c -> "F"
         [] OTHER ->
              IF F32Ge(F32Div(mm.AG, mm.AA + mm.AG), F32Div(mm.TC, mm.TT + mm.TC))
              THEN "F" ELSE "R"

\* StrandByAtoIEditing::roipred
roipredBy(self, mm) ==
    LET a2g == editedBy(self, mm.AA, mm.AG)
        t2c == editedBy(self, mm.TT, mm.TC)
        a2g_coverage == mm.AA + mm.AG
        t2c_coverage == mm.TT + mm.TC
    IN CASE ~a2g /\ ~t2c -> "U"
         [] ~a2g /\ t2c -> "R"
         [] a2g /\ ~t2c -> "F"
         [] OTHER ->
              IF a2g_coverage <= 0 /\ t2c_coverage <= 0 THEN "U"
              ELSE LET ra == F32Div(mm.AG, a2g_coverage)
                       rt == F32Div(mm.TC, t2c_coverage)
                   IN IF mm.AG > 0 /\ F32Gt(ra, rt) THEN "F"
                      ELSE IF mm.TC > 0 /\ F32Gt(rt, ra) THEN "R"
                      ELSE "U"

\* The tallies of one site: NucCounts::new(A, C, G, T).
NucCounts(a, c, g, t) == [A |-> a, C |-> c, G |-> g, T |-> t]

Nucleotides == {"A", "C", "G", "T", "N"}

sitepred_anyref(self, sequenced, refnuc) ==
    CASE refnuc \in {"A", "G"} -> IF editedBy(self, sequenced.A, sequenced.G) THEN "F" ELSE "U"
      [] refnuc \in {"T", "C"} -> IF editedBy(self, sequenced.T, sequenced.C) THEN "R" ELSE "U"
      [] OTHER -> "U"

sitepred(self, sequenced, refnuc) ==
    CASE refnuc = "A" -> IF editedBy(self, sequenced.A, sequenced.G) THEN "F" ELSE "U"
      [] refnuc = "T" -> IF editedBy(self, sequenced.T, sequenced.C) THEN "R" ELSE "U"
      [] OTHER -> "U"

\* A predicted reference: <<n>> is Homozygous(n), <<n1, n2>> is Heterozygous((n1, n2)).
Homozygous(n) == <<n>>
Heterozygous(n1, n2) == <<n1, n2>>
PredNucleotides ==
    {Homozygous(n) : n \in Nucleotides}
        \cup {Heterozygous(n1, n2) : n1, n2 \in Nucleotides}

sitepredict_first(self, sequenced, prednuc) == sitepred(self, sequenced, prednuc[1])

sitepredict_both(self, sequenced, prednuc) ==
    IF Len(prednuc) = 1 THEN sitepred(self, sequenced, prednuc[1])
    ELSE LET s1 == sitepred(self, sequenced, prednuc[1])
             s2 == sitepred(self, sequenced, prednuc[2])
         IN IF s1 # "U" /\ s2 # "U" /\ s1 = s2 THEN s1 ELSE "U"

\* StrandingAlgo<SiteMismatchesVec>::predict, for one site
sitepredict(self, sequenced, prednuc) ==
    IF Len(prednuc) = 1 THEN sitepred(self, sequenced, prednuc[1])
    ELSE LET s1 == sitepred(self, sequenced, prednuc[1])
             s2 == sitepred(self, sequenced, prednuc[2])
         IN CASE s1 # "U" /\ s2 = "U" -> s1
              [] s1 = "U" /\ s2 # "U" -> s2
              [] s1 # "U" /\ s2 # "U" /\ s1 = s2 -> s1
              [] OTHER -> "U"

\* The predictor of the drivers and of the engine: StrandByAtoIEditing::new(8, 0.05).
dummy == StrandByAtoIEditing(minmismatches, minfreq[1], minfreq[2])

edited(matches, mism) == editedBy(dummy, matches, mism)

roipred(mm) == roipredBy(dummy, mm)

\* ------------------------------------------------------------------ records
Rec(w, slice, strand, mm) == [item |-> w, slice |-> slice, strand |-> strand, mm |-> mm]

is_unknown(strand) == strand = "U"

\* The strand predictor of a driver: predict(&interval, &mismatches).
predict(x) == roipred(x.mm)

\* if summary.strand.is_unknown() { .. }
NeedsPredict(x) == is_unknown(x.strand)

\* summary.strand = strandpred.predict(&summary.interval, &summary.mismatches)
ResolveStrand(x) ==
    IF NeedsPredict(x) THEN [x EXCEPT !.strand = predict(x)] ELSE x

\* The records of a batch that a driver hands to its predictor.
PredictorCalls(batch) == {x \in Range(batch) : NeedsPredict(x)}

\* ------------------------------------------------------------------ filters
\* An output filter: thresholds on the mismatches and on the coverage.
OutFilter(minmm, mincov) == [minmm |-> minmm, mincov |-> mincov]
is_ok(f, x) == mismatches(x.mm) >= f.minmm /\ coverage(x.mm) >= f.mincov

retain_all(batch, f) == batch

\* results.retain(|x| filter.is_ok(x))
retain(batch, f) == SelectSeq(batch, LAMBDA x : is_ok(f, x))

\* --------------------------------------------------------------- statistics
\* A statistic: how many records it observed per strand, and their tallies.
StatDefault == [F |-> 0, R |-> 0, U |-> 0, ag |-> 0, tc |-> 0]

StatObserve(s, x) ==
    [F |-> s.F + (IF x.strand = "F" THEN 1 ELSE 0),
     R |-> s.R + (IF x.strand = "R" THEN 1 ELSE 0),
     U |-> s.U + (IF x.strand = "U" THEN 1 ELSE 0),
     ag |-> s.ag + x.mm.AG,
     tc |-> s.tc + x.mm.TC]

StatAdd(a, b) ==
    [F |-> a.F + b.F, R |-> a.R + b.R, U |-> a.U + b.U, ag |-> a.ag + b.ag, tc |-> a.tc + b.tc]

RECURSIVE StatProcessAll(_, _)
StatProcessAll(s, batch) ==
    IF batch = << >> THEN s
    ELSE StatProcessAll(StatObserve(s, Head(batch)), Tail(batch))

RECURSIVE combine(_)
combine(partials) ==
    IF partials = << >> THEN StatDefault
    ELSE StatAdd(Head(partials), combine(Tail(partials)))

\* ---------------------------------------------------------------- workload
\* What the counter reports for an item: the reads it counted and its content,
\* None or the slices {forward, reverse, unstranded} that are populated.
Stranded(f, r) == [forward |-> Some(f), reverse |-> Some(r), unstranded |-> None]
Unstranded(u) == [forward |-> None, reverse |-> None, unstranded |-> Some(u)]

Profiles ==
    { [reads |-> 0, content |-> None],
      [reads |-> 3, content |-> Some(Unstranded(TA2G))],
      [reads |-> 2, content |-> Some(Stranded(TT2C, TZero))],
      [reads |-> 1, content |-> Some(Unstranded(TLow))] }

OutMinMismatches == 5
OutMinCoverage == 10

Configs ==
    { [mode |-> "roi", dostat |-> TRUE, filter |-> OutFilter(OutMinMismatches, OutMinCoverage)],
      [mode |-> "roi", dostat |-> FALSE, filter |-> OutFilter(0, 0)],
      [mode |-> "rada", dostat |-> FALSE, filter |-> OutFilter(OutMinMismatches, OutMinCoverage)],
      [mode |-> "rada", dostat |-> FALSE, filter |-> OutFilter(0, 0)] }

\* The (strand, counts) pairs of a content, in the order the drivers visit them.
Slices(content) ==
    << [strand |-> "F", counts |-> content.forward],
       [strand |-> "R", counts |-> content.reverse],
       [strand |-> "U", counts |-> content.unstranded] >>

\* One raw record per populated slice.
RawRecords(w, p) ==
    IF ~IsSome(p.content) THEN << >>
    ELSE LET present == SelectSeq(Slices(Unwrap(p.content)), LAMBDA s : IsSome(s.counts))
         IN [i \in 1..Len(present) |-> Rec(w, present[i].strand, present[i].strand, Unwrap(present[i].counts))]

\* The tallies a context's counter holds, per slice of its buffer.
ZeroCounts == [F |-> TZero, R |-> TZero, U |-> TZero]

AddTally(a, b) == Tally(a.AA + b.AA, a.AG + b.AG, a.TT + b.TT, a.TC + b.TC)

ResetCounts_keep(held) == held

\* CountsBuffer::reset at the start of an item: every tally is set to zeros
ResetCounts(held) == ZeroCounts

\* The reads of an item are counted into the slices they are routed to.
CountItem(held, p) ==
    IF ~IsSome(p.content) THEN held
    ELSE LET c == Unwrap(p.content)
             into(slot, counts) == IF IsSome(counts) THEN AddTally(slot, Unwrap(counts)) ELSE slot
         IN [F |-> into(held.F, c.forward), R |-> into(held.R, c.reverse),
             U |-> into(held.U, c.unstranded)]

\* What the counter reports for an item: the slices its reads populated, with the
\* tallies the buffer holds.
Reported(held, p) ==
    IF ~IsSome(p.content) THEN p
    ELSE LET c == Unwrap(p.content)
             view(slot, counts) == IF IsSome(counts) THEN Some(slot) ELSE None
         IN [reads |-> p.reads,
             content |-> Some([forward |-> view(held.F, c.forward),
                               reverse |-> view(held.R, c.reverse),
                               unstranded |-> view(held.U, c.unstranded)])]

\* ------------------------------------------------------------ driver state
VARIABLES
    cfg,          \* the run's configuration: driver, dostat, filter
    workload,     \* item -> what the counter reports for it
    mainpc,       \* position of the calling thread in process()/run()
    cur,          \* worker -> its position in the closure, its item, its local result
    takers,       \* item -> the workers that were given it, in order
    ctxstore,     \* slot -> Option<RefCell<context>>
    factoryCalls, \* worker -> calls of the context factory on that worker
    steps,        \* item -> the steps taken for it, in order
    statSeen,     \* item -> Option<the records its statistic observed>
    iterCalls,    \* item -> the arguments of its per-item callback calls
    results,      \* item -> Option<the records returned for it>
    collected,    \* the collected results vector
    dissolved,    \* the contexts yielded by dissolve()
    mapped,       \* the summed mapped-read count
    stats,        \* Option<the combined statistic>
    finishCalls,  \* the arguments of the finish callback calls
    panicked      \* "no", or the call that panicked: "borrow_mut", "unwrap"

drvVars == << cfg, workload, mainpc, cur, takers, ctxstore, factoryCalls, steps, statSeen,
              iterCalls, results, collected, dissolved, mapped, stats,
              finishCalls, panicked >>

\* The state of the stranding engine.
VARIABLES
    se_items,      \* the batch given to strand()
    se_predictors, \* the engine's predictors, in the order they were added
    se_pc,         \* "partition", "loop", "done"
    se_unknown,    \* the records that are still Unknown
    se_result,     \* the records emitted so far
    se_i,          \* the index of the next predictor
    se_calls,      \* the calls of predictors: which predictor, on which batch
    di_k,          \* doiter's map: how many records of the batch it has mapped
    di_out,        \* doiter's map: its output so far
    di_calls       \* doiter's map: the records it gave to its predictor

seVars == << se_items, se_predictors, se_pc, se_unknown, se_result, se_i, se_calls,
             di_k, di_out, di_calls >>

\* The state of the hooks engine.
VARIABLES
    hk_input,   \* the batch given to on_finish
    hk_batch,   \* the batch as the hooks have left it so far
    hk_stats,   \* the engine's statistics
    hk_filters, \* the engine's filters
    hk_i,       \* the index of the next hook to run
    hk_log,     \* the hooks that ran, in order
    hk_seen,    \* statistic -> Option<the records it observed>
    dh_pc,      \* doiter: "stat", "filter", "done"
    dh_res,     \* doiter: its results
    dh_stat     \* doiter: its Option<statistic>

hkVars == << hk_input, hk_batch, hk_stats, hk_filters, hk_i, hk_log, hk_seen,
             dh_pc, dh_res, dh_stat >>

\* The state of the editing-index predictor, called on one region or on one site.
VARIABLES
    ed_mode,     \* "roi" or "site" ("off" outside its specification)
    ed_self,     \* the thresholds: <<minmismatches, num, den>>, minfreq being num / den
    ed_mm,       \* the tally of the region
    ed_seq,      \* the tallies of the site
    ed_prednuc,  \* the predicted reference of the site
    ed_pc,       \* the next call
    ed_a2g,      \* Option<edited(A.A, A.G)>
    ed_t2c,      \* Option<edited(T.T, T.C)>
    ed_roi,      \* Option<roipred of the tally>
    ed_roiswap,  \* Option<roipred of the tally with its channels exchanged>
    ed_alleles,  \* Option<sitepred of each allele>
    ed_swapped,  \* Option<sitepred of each allele, on the complemented site>
    ed_site      \* Option<the strand given to the site>

edVars == << ed_mode, ed_self, ed_mm, ed_seq, ed_prednuc, ed_pc, ed_a2g, ed_t2c, ed_roi,
             ed_roiswap, ed_alleles, ed_swapped, ed_site >>

\* The state of a counting buffer (UnstrandedCountsBuffer).
VARIABLES
    cb_buffer,  \* buffer: Vec<NucCounts>, each tally being the coverage of its locus
    cb_cap,     \* the capacity of the Vec
    cb_ptr,     \* the allocation the Vec lives in
    cb_n,       \* how many calls were made on the buffer
    cb_last,    \* the last call: [op, arg, resized]
    cb_prev,    \* the call before it, and the buffer as the last call found it
    cb_routes,  \* the slices buffer_for returned since the last reset
    cb_resetlen,\* the length given to the last reset (0 before the first one)
    cb_content  \* Option<the view content() returned>, until the buffer changes again

cbVars == << cb_buffer, cb_cap, cb_ptr, cb_n, cb_last, cb_prev, cb_routes, cb_resetlen,
             cb_content >>

\* The state of a stranded counter: two counters, each with its buffer.
VARIABLES
    sc_heap,     \* the buffers that exist: buffer -> its tallies
    sc_counter,  \* [forward, reverse]: the buffer each of the two counters owns
    sc_design,   \* the sequencing design the strand of a read is deduced by
    sc_routes,   \* the buffers the reads were routed to since the last reset
    sc_written,  \* [F, R]: what was counted for the reads of each strand since the last reset
    sc_n         \* how many calls were made on the counter

scVars == << sc_heap, sc_counter, sc_design, sc_routes, sc_written, sc_n >>

\* ------------------------------------------------------------ record writer state
VARIABLES
    so_items,     \* the ROIMismatchesVec values passed in, in the caller's order
    so_pc,        \* "sort", "write", or the call's result: "Ok", "Err"
    so_iter,      \* the sorted records not yet written
    so_written    \* the records serialized so far, in order

soVars == << so_items, so_pc, so_iter, so_written >>

\* ------------------------------------------------------------ validator state
VARIABLES
    va_validator, \* the closure numeric(low, upper) returned: the type T, low and upper
    va_val,       \* the string the closure is called with
    va_pc,        \* position in the closure
    va_integer,   \* the result of val.parse::<T>()
    va_result     \* what the closure returned: "Ok", "Err", or "none" while it runs

vaVars == << va_validator, va_val, va_pc, va_integer, va_result >>

Idle == [pc |-> "idle", item |-> 0, res |-> << >>]

NewCtx_nostat(t) ==
    [creator |-> t, users |-> {}, borrowed |-> FALSE, mapped |-> 0, held |-> ZeroCounts, stat |-> None]

\* The factory: RefCell::new((runner.clone(), strandpred.clone(), filter.clone(), statbuilder.clone()))
NewCtx(t) ==
    [creator |-> t, users |-> {}, borrowed |-> FALSE, mapped |-> 0, held |-> ZeroCounts,
     stat |-> IF cfg.dostat THEN Some(StatDefault) ELSE None]

\* The slot of the store that a worker's request resolves to.
CtxSlot(t) == t

\* The workload is a Vec of any length, the empty one included.
Workloads == UNION {[1..n -> Profiles] : n \in 0..NItems}

\* The positions of the workload handed to the parallel iterator.
Items == 1..Len(workload)

NeedsBuild_always(slot) == TRUE

\* get()/get_or(): the factory is called only if the slot holds no context yet.
NeedsBuild(slot) == ~IsSome(ctxstore[slot])

Untaken_never(w) == FALSE

\* An item of the parallel iterator that no worker has been given yet.
Untaken(w) == takers[w] = << >>

CollectDone_taken == \A w \in Items : takers[w] # << >>

\* collect() returns once every item's closure has returned.
CollectDone == \A w \in Items : IsSome(results[w])

ReleaseBorrow_leaked(c) == c

\* The borrow taken for an item ends when its closure returns (ctx is dropped).
ReleaseBorrow(c) == [c EXCEPT !.borrowed = FALSE]

StepOrder_statfirst == << "ctx", "count", "stat", "strand", "filter", "oniter", "return" >>

\* The order of the steps of one item in process()/doiter().
StepOrder == << "ctx", "count", "strand", "stat", "filter", "oniter", "return" >>

PcAfter(pc) ==
    LET i == CHOOSE j \in 1..Len(StepOrder) : StepOrder[j] = pc
    IN StepOrder[i + 1]

MyCtx(t) == Unwrap(ctxstore[CtxSlot(t)])

Log(w, what) == steps' = [steps EXCEPT ![w] = Append(@, what)]

DrvInit ==
    /\ cfg \in Configs
    /\ workload \in Workloads
    /\ mainpc = "par"
    /\ cur = [t \in Threads |-> Idle]
    /\ takers = [w \in Items |-> << >>]
    /\ ctxstore = [t \in Threads |-> None]
    /\ factoryCalls = [t \in Threads |-> 0]
    /\ steps = [w \in Items |-> << >>]
    /\ statSeen = [w \in Items |-> None]
    /\ iterCalls = [w \in Items |-> << >>]
    /\ results = [w \in Items |-> None]
    /\ collected = << >>
    /\ dissolved = << >>
    /\ mapped = 0
    /\ stats = None
    /\ finishCalls = << >>
    /\ panicked = "no"

\* A worker is given item w and enters the closure: ctxstore.get().borrow_mut()
Begin(t, w) ==
    /\ mainpc = "par" /\ panicked = "no"
    /\ cur[t].pc = "idle"
    /\ Untaken(w)
    /\ takers' = [takers EXCEPT ![w] = Append(@, t)]
    /\ Log(w, "ctx")
    /\ LET slot == CtxSlot(t)
           fresh == NeedsBuild(slot)
           c == IF fresh THEN NewCtx(t) ELSE Unwrap(ctxstore[slot])
       IN /\ factoryCalls' = IF fresh THEN [factoryCalls EXCEPT ![t] = @ + 1] ELSE factoryCalls
          /\ IF c.borrowed
             THEN /\ panicked' = "borrow_mut"
                  /\ ctxstore' = [ctxstore EXCEPT ![slot] = Some([c EXCEPT !.users = @ \cup {t}])]
                  /\ cur' = [cur EXCEPT ![t] = [pc |-> "dead", item |-> w, res |-> << >>]]
             ELSE /\ panicked' = panicked
                  /\ ctxstore' = [ctxstore EXCEPT ![slot] =
                                     Some([c EXCEPT !.users = @ \cup {t}, !.borrowed = TRUE])]
                  /\ cur' = [cur EXCEPT ![t] = [pc |-> "count", item |-> w, res |-> << >>]]
    /\ UNCHANGED << cfg, workload, mainpc, statSeen, iterCalls, results, collected,
                    dissolved, mapped, stats, finishCalls >>
    /\ UNCHANGED << seVars, hkVars, edVars, cbVars, scVars, soVars, vaVars >>

\* doiter: rnr.run(w)
Count(t) ==
    /\ cfg.mode = "roi" /\ panicked = "no"
    /\ cur[t].pc = "count"
    /\ LET w == cur[t].item
           held == CountItem(ResetCounts(MyCtx(t).held), workload[w])
       IN /\ ctxstore' = [ctxstore EXCEPT ![CtxSlot(t)] =
                             Some([MyCtx(t) EXCEPT !.mapped = @ + workload[w].reads, !.held = held])]
          /\ cur' = [cur EXCEPT ![t].pc = PcAfter("count"),
                                ![t].res = RawRecords(w, Reported(held, workload[w]))]
          /\ Log(w, "count")
    /\ UNCHANGED << cfg, workload, mainpc, takers, factoryCalls, statSeen, iterCalls,
                    results, collected, dissolved, mapped, stats, finishCalls, panicked >>
    /\ UNCHANGED << seVars, hkVars, edVars, cbVars, scVars, soVars, vaVars >>

\* doiter: .map(|x| { summary = x.into(); if unknown { predict }; summary }).collect_vec()
Strand(t) ==
    /\ cfg.mode = "roi" /\ panicked = "no"
    /\ cur[t].pc = "strand"
    /\ cur' = [cur EXCEPT ![t].pc = PcAfter("strand"), ![t].res = MapSeq(cur[t].res, ResolveStrand)]
    /\ Log(cur[t].item, "strand")
    /\ UNCHANGED << cfg, workload, mainpc, takers, ctxstore, factoryCalls, statSeen, iterCalls,
                    results, collected, dissolved, mapped, stats, finishCalls, panicked >>
    /\ UNCHANGED << seVars, hkVars, edVars, cbVars, scVars, soVars, vaVars >>

\* doiter: if let Some(stat) = stat { for x in &results { stat.process(x) } }
Stat(t) ==
    /\ cfg.mode = "roi" /\ panicked = "no"
    /\ cur[t].pc = "stat"
    /\ LET w == cur[t].item
           c == MyCtx(t)
       IN IF IsSome(c.stat)
          THEN /\ ctxstore' = [ctxstore EXCEPT ![CtxSlot(t)] =
                                  Some([c EXCEPT !.stat = Some(StatProcessAll(Unwrap(c.stat), cur[t].res))])]
               /\ statSeen' = [statSeen EXCEPT ![w] = Some(cur[t].res)]
          ELSE UNCHANGED << ctxstore, statSeen >>
    /\ cur' = [cur EXCEPT ![t].pc = PcAfter("stat")]
    /\ Log(cur[t].item, "stat")
    /\ UNCHANGED << cfg, workload, mainpc, takers, factoryCalls, iterCalls, results,
                    collected, dissolved, mapped, stats, finishCalls, panicked >>
    /\ UNCHANGED << seVars, hkVars, edVars, cbVars, scVars, soVars, vaVars >>

\* doiter: results.retain(|x| filter.is_ok(x)); results
Filter(t) ==
    /\ cfg.mode = "roi" /\ panicked = "no"
    /\ cur[t].pc = "filter"
    /\ cur' = [cur EXCEPT ![t].pc = PcAfter("filter"), ![t].res = retain(cur[t].res, cfg.filter)]
    /\ Log(cur[t].item, "filter")
    /\ UNCHANGED << cfg, workload, mainpc, takers, ctxstore, factoryCalls, statSeen, iterCalls, results, collected, dissolved, mapped, stats, finishCalls, panicked >>
    /\ UNCHANGED << seVars, hkVars, edVars, cbVars, scVars, soVars, vaVars >>

Skipped_never(summary) == FALSE

\* run: if summary.mismatches.coverage() == 0 { continue; }
Skipped(summary) == coverage(summary.mm) = 0

\* run: the loop over (Forward, forward), (Reverse, reverse), (Unknown, unstranded)
RECURSIVE RadaSummaries(_, _, _, _)
RadaSummaries(w, slices, f, result) ==
    IF slices = << >> THEN result
    ELSE LET s == Head(slices)
             rest == Tail(slices)
         IN IF ~IsSome(s.counts) THEN RadaSummaries(w, rest, f, result)
            ELSE LET summary == Rec(w, s.strand, s.strand, Unwrap(s.counts))
                 IN IF Skipped(summary) THEN RadaSummaries(w, rest, f, result)
                    ELSE LET stranded == ResolveStrand(summary)
                         IN IF is_ok(f, stranded)
                            THEN RadaSummaries(w, rest, f, Append(result, stranded))
                            ELSE RadaSummaries(w, rest, f, result)

RadaAfterCount_nohook(content) == IF IsSome(content) THEN "build" ELSE "return"

\* run: if content.is_none() { let result = vec![]; hook(&result); return result; }
RadaAfterCount(content) == IF IsSome(content) THEN "build" ELSE "oniter"

\* run: ctx.nuccount(&w.interval); ctx.nuccontent()
RadaCount(t) ==
    /\ cfg.mode = "rada" /\ panicked = "no"
    /\ cur[t].pc = "count"
    /\ cur' = [cur EXCEPT ![t].pc = RadaAfterCount(workload[cur[t].item].content)]
    /\ Log(cur[t].item, "count")
    /\ UNCHANGED << cfg, workload, mainpc, takers, ctxstore, factoryCalls, statSeen, iterCalls, results, collected, dissolved, mapped, stats, finishCalls, panicked >>
    /\ UNCHANGED << seVars, hkVars, edVars, cbVars, scVars, soVars, vaVars >>

\* run: build the summaries of the item
RadaBuild(t) ==
    /\ cfg.mode = "rada" /\ panicked = "no"
    /\ cur[t].pc = "build"
    /\ LET w == cur[t].item
       IN /\ cur' = [cur EXCEPT ![t].pc = "oniter",
                                ![t].res = RadaSummaries(w, Slices(Unwrap(workload[w].content)),
                                                         cfg.filter, << >>)]
          /\ Log(w, "build")
    /\ UNCHANGED << cfg, workload, mainpc, takers, ctxstore, factoryCalls, statSeen, iterCalls,
                    results, collected, dissolved, mapped, stats, finishCalls, panicked >>
    /\ UNCHANGED << seVars, hkVars, edVars, cbVars, scVars, soVars, vaVars >>

\* oniter(&result) / hook(&result)
OnIter(t) ==
    /\ panicked = "no"
    /\ cur[t].pc = "oniter"
    /\ iterCalls' = [iterCalls EXCEPT ![cur[t].item] = Append(@, cur[t].res)]
    /\ cur' = [cur EXCEPT ![t].pc = "return"]
    /\ Log(cur[t].item, "oniter")
    /\ UNCHANGED << cfg, workload, mainpc, takers, ctxstore, factoryCalls, statSeen, results, collected, dissolved, mapped, stats, finishCalls, panicked >>
    /\ UNCHANGED << seVars, hkVars, edVars, cbVars, scVars, soVars, vaVars >>

\* The closure returns its result; ctx goes out of scope.
Return(t) ==
    /\ panicked = "no"
    /\ cur[t].pc = "return"
    /\ results' = [results EXCEPT ![cur[t].item] = Some(cur[t].res)]
    /\ ctxstore' = [ctxstore EXCEPT ![CtxSlot(t)] = Some(ReleaseBorrow(MyCtx(t)))]
    /\ cur' = [cur EXCEPT ![t] = Idle]
    /\ Log(cur[t].item, "return")
    /\ UNCHANGED << cfg, workload, mainpc, takers, factoryCalls, statSeen, iterCalls,
                    collected, dissolved, mapped, stats, finishCalls, panicked >>
    /\ UNCHANGED << seVars, hkVars, edVars, cbVars, scVars, soVars, vaVars >>

Collected_last ==
    IF Items # {} /\ IsSome(results[Len(workload)]) THEN Unwrap(results[Len(workload)]) ELSE << >>

\* .flatten().collect(): the results of the items, in workload order
Collected == Flatten([w \in Items |-> IF IsSome(results[w]) THEN Unwrap(results[w]) ELSE << >>])

Join ==
    /\ mainpc = "par" /\ panicked = "no"
    /\ CollectDone
    /\ collected' = Collected
    /\ mainpc' = IF cfg.mode = "roi" THEN "dissolve" ELSE "finish"
    /\ UNCHANGED << cfg, workload, cur, takers, ctxstore, factoryCalls, steps, statSeen, iterCalls, results, dissolved, mapped, stats, finishCalls, panicked >>
    /\ UNCHANGED << seVars, hkVars, edVars, cbVars, scVars, soVars, vaVars >>

\* dissolve(): every context that was created, each once, in some order
dissolve(store) ==
    {[i \in 1..Len(order) |-> Unwrap(store[order[i]])] :
        order \in Perms({slot \in Threads : IsSome(store[slot])})}

\* ctxstore.dissolve().map(|x| x.into_inner()).collect_vec()
Dissolve ==
    /\ mainpc = "dissolve" /\ panicked = "no"
    /\ dissolved' \in dissolve(ctxstore)
    /\ ctxstore' = [t \in Threads |-> None]
    /\ mainpc' = "mapped"
    /\ UNCHANGED << cfg, workload, cur, takers, factoryCalls, steps, statSeen, iterCalls,
                    results, collected, mapped, stats, finishCalls, panicked >>
    /\ UNCHANGED << seVars, hkVars, edVars, cbVars, scVars, soVars, vaVars >>

MappedSum_first(ctxs) == IF ctxs = << >> THEN 0 ELSE ctxs[1].mapped

\* ctxstore.iter().map(|x| x.0.mapped()).sum()
MappedSum(ctxs) == SumSeq([i \in 1..Len(ctxs) |-> ctxs[i].mapped])

Mapped ==
    /\ mainpc = "mapped" /\ panicked = "no"
    /\ mapped' = MappedSum(dissolved)
    /\ mainpc' = "stats"
    /\ UNCHANGED << cfg, workload, cur, takers, ctxstore, factoryCalls, steps, statSeen, iterCalls, results, collected, dissolved, stats, finishCalls, panicked >>
    /\ UNCHANGED << seVars, hkVars, edVars, cbVars, scVars, soVars, vaVars >>

StatPartials_first(ctxs) == IF ctxs = << >> THEN << >> ELSE << Unwrap(ctxs[1].stat) >>

\* ctxstore.into_iter().map(|x| x.3.unwrap()).collect_vec()
StatPartials(ctxs) == [i \in 1..Len(ctxs) |-> Unwrap(ctxs[i].stat)]

Stats_skipempty ==
    /\ mainpc = "stats" /\ panicked = "no"
    /\ IF cfg.dostat /\ dissolved # << >>
       THEN IF \E i \in 1..Len(dissolved) : ~IsSome(dissolved[i].stat)
            THEN /\ panicked' = "unwrap"
                 /\ UNCHANGED << stats, mainpc >>
            ELSE /\ stats' = Some(combine(StatPartials(dissolved)))
                 /\ mainpc' = "finish"
                 /\ UNCHANGED panicked
       ELSE /\ stats' = None
            /\ mainpc' = "finish"
            /\ UNCHANGED panicked
    /\ UNCHANGED << cfg, workload, cur, takers, ctxstore, factoryCalls, steps, statSeen, iterCalls, results, collected, dissolved, mapped, finishCalls >>
    /\ UNCHANGED << seVars, hkVars, edVars, cbVars, scVars, soVars, vaVars >>

\* if dostat { Some(StatBuilder::combine(buffer)) } else { None }
Stats ==
    /\ mainpc = "stats" /\ panicked = "no"
    /\ IF cfg.dostat
       THEN IF \E i \in 1..Len(dissolved) : ~IsSome(dissolved[i].stat)
            THEN /\ panicked' = "unwrap"
                 /\ UNCHANGED << stats, mainpc >>
            ELSE /\ stats' = Some(combine(StatPartials(dissolved)))
                 /\ mainpc' = "finish"
                 /\ UNCHANGED panicked
       ELSE /\ stats' = None
            /\ mainpc' = "finish"
            /\ UNCHANGED panicked
    /\ UNCHANGED << cfg, workload, cur, takers, ctxstore, factoryCalls, steps, statSeen, iterCalls, results, collected, dissolved, mapped, finishCalls >>
    /\ UNCHANGED << seVars, hkVars, edVars, cbVars, scVars, soVars, vaVars >>

\* onfinish(&results, mapped) / onfinish(&results)
Finish ==
    /\ mainpc = "finish" /\ panicked = "no"
    /\ finishCalls' = Append(finishCalls,
                             [records |-> collected,
                              reads |-> IF cfg.mode = "roi" THEN Some(mapped) ELSE None])
    /\ mainpc' = "done"
    /\ UNCHANGED << cfg, workload, cur, takers, ctxstore, factoryCalls, steps, statSeen, iterCalls, results, collected, dissolved, mapped, stats, panicked >>
    /\ UNCHANGED << seVars, hkVars, edVars, cbVars, scVars, soVars, vaVars >>

DrvNext ==
    \/ \E t \in Threads, w \in Items : Begin(t, w)
    \/ \E t \in Threads : Count(t)
    \/ \E t \in Threads : Strand(t)
    \/ \E t \in Threads : Stat(t)
    \/ \E t \in Threads : Filter(t)
    \/ \E t \in Threads : RadaCount(t)
    \/ \E t \in Threads : RadaBuild(t)
    \/ \E t \in Threads : OnIter(t)
    \/ \E t \in Threads : Return(t)
    \/ Join
    \/ Dissolve
    \/ Mapped
    \/ Stats
    \/ Finish

\* The driver is not running.
DrvOff ==
    /\ cfg = << >> /\ workload = << >> /\ mainpc = "off" /\ cur = << >> /\ takers = << >>
    /\ ctxstore = << >> /\ factoryCalls = << >> /\ steps = << >> /\ statSeen = << >>
    /\ iterCalls = << >> /\ results = << >> /\ collected = << >>
    /\ dissolved = << >> /\ mapped = 0 /\ stats = None /\ finishCalls = << >>
    /\ panicked = "no"

\* ------------------------------------------------------------ batches
\* A record of a batch: its place in the input, its strand, its tally and the strand
\* an annotation gives it.
BatchRec(id, shape) == [id |-> id, strand |-> shape.strand, mm |-> shape.mm, hint |-> shape.hint]

Shapes ==
    { [strand |-> "F", mm |-> TT2C, hint |-> "R"],
      [strand |-> "R", mm |-> TA2G, hint |-> "U"],
      [strand |-> "U", mm |-> TA2G, hint |-> "R"],
      [strand |-> "U", mm |-> TLow, hint |-> "F"],
      [strand |-> "U", mm |-> TLow, hint |-> "U"] }

Batches ==
    UNION {{[i \in 1..n |-> BatchRec(i, f[i])] : f \in [1..n -> Shapes]} : n \in 0..MaxBatch}

SeqsUpTo(S, n) == UNION {[1..k -> S] : k \in 0..n}

\* ------------------------------------------------------------ stranding engine
PredictorKinds == {"editing", "annotation"}

\* A predictor's answer for a batch: the same records, with the strands it calls.
PredictWith(kind, batch) ==
    IF kind = "editing"
    THEN [i \in 1..Len(batch) |-> [batch[i] EXCEPT !.strand = roipred(batch[i].mm)]]
    ELSE [i \in 1..Len(batch) |-> [batch[i] EXCEPT !.strand = batch[i].hint]]

partition_all(batch) == [unknown |-> batch, stranded |-> << >>]

\* .into_iter().partition(|x| x.strand().is_unknown())
partition(batch) ==
    [unknown |-> SelectSeq(batch, LAMBDA x : is_unknown(x.strand)),
     stranded |-> SelectSeq(batch, LAMBDA x : ~is_unknown(x.strand))]

PredictorAt_reversed(predictors, i) == predictors[Len(predictors) - i + 1]

\* for predictor in &self.predictors: the i-th predictor the loop visits
PredictorAt(predictors, i) == predictors[i]

ExtendUnknown_dropped(result, unknown) == result

\* if !unknown.is_empty() { result.extend(unknown) }
ExtendUnknown(result, unknown) ==
    IF unknown # << >> THEN result \o unknown ELSE result

is_empty_never(unknown) == FALSE

\* if unknown.is_empty() { break; }
is_empty(unknown) == unknown = << >>

extend_front(result, stranded) == stranded \o result

\* result.extend(stranded)
extend(result, stranded) == result \o stranded

SeOff ==
    /\ se_items = << >> /\ se_predictors = << >> /\ se_pc = "off" /\ se_unknown = << >>
    /\ se_result = << >> /\ se_i = 0 /\ se_calls = << >>
    /\ di_k = 0 /\ di_out = << >> /\ di_calls = {}

SeInit ==
    /\ se_items \in Batches
    /\ se_predictors \in SeqsUpTo(PredictorKinds, MaxPredictors)
    /\ se_pc = "partition"
    /\ se_unknown = << >> /\ se_result = << >>
    /\ se_i = 1
    /\ se_calls = << >>
    /\ di_k = 0 /\ di_out = << >> /\ di_calls = {}

\* strand: let (mut unknown, mut result) = items.into_iter().partition(..)
SePartition ==
    /\ se_pc = "partition"
    /\ se_unknown' = partition(se_items).unknown
    /\ se_result' = partition(se_items).stranded
    /\ se_pc' = "loop"
    /\ UNCHANGED << se_items, se_predictors, se_i, se_calls, di_k, di_out, di_calls >>
    /\ UNCHANGED << drvVars, hkVars, edVars, cbVars, scVars, soVars, vaVars >>

\* strand: one turn of the loop over the predictors
SePredict ==
    /\ se_pc = "loop"
    /\ se_i <= Len(se_predictors)
    /\ ~is_empty(se_unknown)
    /\ LET predictor == PredictorAt(se_predictors, se_i)
           out == partition(PredictWith(predictor, se_unknown))
       IN /\ se_unknown' = out.unknown
          /\ se_result' = extend(se_result, out.stranded)
          /\ se_calls' = Append(se_calls,
                [predictor |-> se_i, kind |-> predictor, batch |-> se_unknown])
    /\ se_i' = se_i + 1
    /\ UNCHANGED << se_items, se_predictors, se_pc, di_k, di_out, di_calls >>
    /\ UNCHANGED << drvVars, hkVars, edVars, cbVars, scVars, soVars, vaVars >>

\* strand: the loop ends (no predictor left, or break); result.extend(unknown); result
SeFinish ==
    /\ se_pc = "loop"
    /\ se_i > Len(se_predictors) \/ is_empty(se_unknown)
    /\ se_result' = ExtendUnknown(se_result, se_unknown)
    /\ se_pc' = "done"
    /\ UNCHANGED << se_items, se_predictors, se_unknown, se_i, se_calls, di_k, di_out, di_calls >>
    /\ UNCHANGED << drvVars, hkVars, edVars, cbVars, scVars, soVars, vaVars >>

\* doiter / run: the strand of the next record of the batch is resolved
DiMap ==
    /\ se_pc # "off"
    /\ di_k < Len(se_items)
    /\ LET x == se_items[di_k + 1]
       IN /\ di_out' = Append(di_out, ResolveStrand(x))
          /\ di_calls' = di_calls \cup PredictorCalls(<< x >>)
    /\ di_k' = di_k + 1
    /\ UNCHANGED << se_items, se_predictors, se_pc, se_unknown, se_result, se_i, se_calls >>
    /\ UNCHANGED << drvVars, hkVars, edVars, cbVars, scVars, soVars, vaVars >>

SeNext ==
    \/ SePartition
    \/ SePredict
    \/ SeFinish
    \/ DiMap

\* ------------------------------------------------------------ hooks engine
FilterKinds == {OutFilter(OutMinMismatches, 0), OutFilter(0, 2 * OutMinCoverage)}

HookOrder_filtersfirst(nstats, nfilters) ==
    [i \in 1..nfilters |-> [kind |-> "filter", idx |-> i]]
        \o [i \in 1..nstats |-> [kind |-> "stat", idx |-> i]]

\* on_finish: for s in &mut self.stats { .. } for f in &mut self.filters { .. }
HookOrder(nstats, nfilters) ==
    [i \in 1..nstats |-> [kind |-> "stat", idx |-> i]]
        \o [i \in 1..nfilters |-> [kind |-> "filter", idx |-> i]]

HkOff ==
    /\ hk_input = << >> /\ hk_batch = << >> /\ hk_stats = << >> /\ hk_filters = << >>
    /\ hk_i = 0 /\ hk_log = << >> /\ hk_seen = << >>
    /\ dh_pc = "off" /\ dh_res = << >> /\ dh_stat = None

HkInit ==
    /\ hk_input \in Batches
    /\ hk_batch = hk_input
    /\ \E n \in 0..MaxStats :
          /\ hk_stats = [i \in 1..n |-> StatDefault]
          /\ hk_seen = [i \in 1..n |-> None]
          /\ dh_stat = IF n > 0 THEN Some(StatDefault) ELSE None
    /\ hk_filters \in SeqsUpTo(FilterKinds, MaxFilters)
    /\ hk_i = 1
    /\ hk_log = << >>
    /\ dh_pc = "stat"
    /\ dh_res = hk_input

\* on_finish: the next hook runs on the batch
HkStep ==
    /\ dh_pc # "off"
    /\ hk_i <= Len(hk_stats) + Len(hk_filters)
    /\ LET h == HookOrder(Len(hk_stats), Len(hk_filters))[hk_i]
       IN /\ hk_log' = Append(hk_log, h)
          /\ IF h.kind = "stat"
             THEN /\ hk_stats' = [hk_stats EXCEPT ![h.idx] = StatProcessAll(@, hk_batch)]
                  /\ hk_seen' = [hk_seen EXCEPT ![h.idx] = Some(hk_batch)]
                  /\ UNCHANGED hk_batch
             ELSE /\ hk_batch' = retain(hk_batch, hk_filters[h.idx])
                  /\ UNCHANGED << hk_stats, hk_seen >>
    /\ hk_i' = hk_i + 1
    /\ UNCHANGED << hk_input, hk_filters, dh_pc, dh_res, dh_stat >>
    /\ UNCHANGED << drvVars, seVars, edVars, cbVars, scVars, soVars, vaVars >>

\* The filter of doiter: the engine's first filter, or one that accepts everything.
DhFilter == IF hk_filters # << >> THEN hk_filters[1] ELSE OutFilter(0, 0)

\* doiter: if let Some(stat) = stat { for x in &results { stat.process(x) } }
DhStat ==
    /\ dh_pc = "stat"
    /\ dh_stat' = IF IsSome(dh_stat) THEN Some(StatProcessAll(Unwrap(dh_stat), dh_res)) ELSE dh_stat
    /\ dh_pc' = "filter"
    /\ UNCHANGED << hk_input, hk_batch, hk_stats, hk_filters, hk_i, hk_log, hk_seen, dh_res >>
    /\ UNCHANGED << drvVars, seVars, edVars, cbVars, scVars, soVars, vaVars >>

\* doiter: results.retain(|x| filter.is_ok(x))
DhFilterStep ==
    /\ dh_pc = "filter"
    /\ dh_res' = retain(dh_res, DhFilter)
    /\ dh_pc' = "done"
    /\ UNCHANGED << hk_input, hk_batch, hk_stats, hk_filters, hk_i, hk_log, hk_seen, dh_stat >>
    /\ UNCHANGED << drvVars, seVars, edVars, cbVars, scVars, soVars, vaVars >>

HkNext ==
    \/ HkStep
    \/ DhStat
    \/ DhFilterStep

\* ------------------------------------------------------------ editing predictor
\* The channels (matches, mismatches) the tallies are made of: those of the tests of
\* editing.rs, the two sides of each threshold, two high ratios one count apart, and
\* a covered channel without mismatches.
Channels ==
    { <<0, 0>>, <<5, 0>>, <<8, 8>>, <<100, 4>>, <<1, 7>>, <<10, 10>>, <<10, 11>>, <<10, 9>>,
      <<152, 8>>, <<153, 8>>, <<1, 4140>>, <<1, 4141>> }

\* The thresholds: (8, 0.05) and (10, 0.1) of the tests, and none.
Thresholds == { <<8, 1, 20>>, <<10, 1, 10>>, <<0, 0, 1>> }

Self == StrandByAtoIEditing(ed_self[1], ed_self[2], ed_self[3])

\* The tally with its A->G and T->C channels exchanged, the complemented site and
\* reference, and the opposite strand.
SwapTally(mm) == Tally(mm.TT, mm.TC, mm.AA, mm.AG)
SwapCounts(c) == NucCounts(c.T, c.G, c.C, c.A)
SwapNuc(n) == CASE n = "A" -> "T" [] n = "T" -> "A" [] n = "C" -> "G" [] n = "G" -> "C"
                [] OTHER -> n
Neg(strand) == CASE strand = "F" -> "R" [] strand = "R" -> "F" [] OTHER -> "U"

EdOff ==
    /\ ed_mode = "off" /\ ed_self = << >> /\ ed_mm = TZero /\ ed_seq = NucCounts(0, 0, 0, 0)
    /\ ed_prednuc = << >> /\ ed_pc = "off"
    /\ ed_a2g = None /\ ed_t2c = None /\ ed_roi = None /\ ed_roiswap = None
    /\ ed_alleles = None /\ ed_swapped = None /\ ed_site = None

EdInit ==
    /\ ed_self \in Thresholds
    /\ \/ /\ ed_mode = "roi"
          /\ \E a, t \in Channels : ed_mm = Tally(a[1], a[2], t[1], t[2])
          /\ ed_seq = NucCounts(0, 0, 0, 0) /\ ed_prednuc = << >>
          /\ ed_pc = "edited"
       \/ /\ ed_mode = "site"
          /\ \E a, t \in Channels : ed_seq = NucCounts(a[1], t[2], a[2], t[1])
          /\ ed_prednuc \in PredNucleotides
          /\ ed_mm = TZero
          /\ ed_pc = "sitepred"
    /\ ed_a2g = None /\ ed_t2c = None /\ ed_roi = None /\ ed_roiswap = None
    /\ ed_alleles = None /\ ed_swapped = None /\ ed_site = None

\* roipred: let a2g = self.edited(..); let t2c = self.edited(..)
EdEdited ==
    /\ ed_pc = "edited"
    /\ ed_a2g' = Some(editedBy(Self, ed_mm.AA, ed_mm.AG))
    /\ ed_t2c' = Some(editedBy(Self, ed_mm.TT, ed_mm.TC))
    /\ ed_pc' = "roipred"
    /\ UNCHANGED << ed_mode, ed_self, ed_mm, ed_seq, ed_prednuc, ed_roi, ed_roiswap,
                    ed_alleles, ed_swapped, ed_site >>
    /\ UNCHANGED << drvVars, seVars, hkVars, cbVars, scVars, soVars, vaVars >>

\* roipred on the tally
EdRoipred ==
    /\ ed_pc = "roipred"
    /\ ed_roi' = Some(roipredBy(Self, ed_mm))
    /\ ed_pc' = "roiswap"
    /\ UNCHANGED << ed_mode, ed_self, ed_mm, ed_seq, ed_prednuc, ed_a2g, ed_t2c, ed_roiswap,
                    ed_alleles, ed_swapped, ed_site >>
    /\ UNCHANGED << drvVars, seVars, hkVars, cbVars, scVars, soVars, vaVars >>

\* roipred on the tally with its channels exchanged
EdRoipredSwapped ==
    /\ ed_pc = "roiswap"
    /\ ed_roiswap' = Some(roipredBy(Self, SwapTally(ed_mm)))
    /\ ed_pc' = "done"
    /\ UNCHANGED << ed_mode, ed_self, ed_mm, ed_seq, ed_prednuc, ed_a2g, ed_t2c, ed_roi,
                    ed_alleles, ed_swapped, ed_site >>
    /\ UNCHANGED << drvVars, seVars, hkVars, cbVars, scVars, soVars, vaVars >>

\* sitepred on each allele of the predicted reference
EdSitepred ==
    /\ ed_pc = "sitepred"
    /\ ed_alleles' = Some([i \in 1..Len(ed_prednuc) |-> sitepred(Self, ed_seq, ed_prednuc[i])])
    /\ ed_pc' = "predict"
    /\ UNCHANGED << ed_mode, ed_self, ed_mm, ed_seq, ed_prednuc, ed_a2g, ed_t2c, ed_roi,
                    ed_roiswap, ed_swapped, ed_site >>
    /\ UNCHANGED << drvVars, seVars, hkVars, cbVars, scVars, soVars, vaVars >>

\* predict: the strand of the site
EdSitePredict ==
    /\ ed_pc = "predict"
    /\ ed_site' = Some(sitepredict(Self, ed_seq, ed_prednuc))
    /\ ed_pc' = "siteswap"
    /\ UNCHANGED << ed_mode, ed_self, ed_mm, ed_seq, ed_prednuc, ed_a2g, ed_t2c, ed_roi,
                    ed_roiswap, ed_alleles, ed_swapped >>
    /\ UNCHANGED << drvVars, seVars, hkVars, cbVars, scVars, soVars, vaVars >>

\* sitepred on each allele, complemented, of the complemented site
EdSitepredSwapped ==
    /\ ed_pc = "siteswap"
    /\ ed_swapped' = Some([i \in 1..Len(ed_prednuc) |->
                            sitepred(Self, SwapCounts(ed_seq), SwapNuc(ed_prednuc[i]))])
    /\ ed_pc' = "done"
    /\ UNCHANGED << ed_mode, ed_self, ed_mm, ed_seq, ed_prednuc, ed_a2g, ed_t2c, ed_roi,
                    ed_roiswap, ed_alleles, ed_site >>
    /\ UNCHANGED << drvVars, seVars, hkVars, cbVars, scVars, soVars, vaVars >>

EdNext ==
    \/ EdEdited
    \/ EdRoipred
    \/ EdRoipredSwapped
    \/ EdSitepred
    \/ EdSitePredict
    \/ EdSitepredSwapped

\* ------------------------------------------------------------ counting buffer
\* NucCounts::zeros(), a tally being the coverage of its locus
Zeros == 0

\* Vec::resize(newlen, value): truncates, or extends with value
resize(buffer, newlen, value) ==
    IF newlen <= Len(buffer) THEN SubSeq(buffer, 1, newlen)
    ELSE buffer \o [i \in 1..(newlen - Len(buffer)) |-> value]

\* [T]::fill(value)
fill(buffer, value) == [i \in 1..Len(buffer) |-> value]

NeedsResize_always(buffer, newlen) == TRUE

\* if self.buffer.len() != newlen
NeedsResize(buffer, newlen) == Len(buffer) # newlen

reset_resizeonly(buffer, newlen) ==
    IF NeedsResize(buffer, newlen) THEN resize(buffer, newlen, Zeros) ELSE buffer

\* UnstrandedCountsBuffer::reset
reset(buffer, newlen) ==
    fill(IF NeedsResize(buffer, newlen) THEN resize(buffer, newlen, Zeros) ELSE buffer, Zeros)

\* The capacities a Vec may have once it holds newlen elements: its own if that is
\* enough, else a new one, exact or doubled.
Capacities(cap, newlen) ==
    IF newlen <= cap THEN {cap} ELSE {newlen, IF 2 * cap > newlen THEN 2 * cap ELSE newlen}

buffer_for_bystrand(strand) == strand

\* UnstrandedCountsBuffer::buffer_for: &mut self.buffer, whatever the read
buffer_for(strand) == "buffer"

\* UnstrandedCountsBuffer::len
len(buffer) == Len(buffer)

content_forward(buffer, ptr) ==
    [forward |-> Some([ptr |-> ptr, tallies |-> buffer]), reverse |-> None, unstranded |-> None]

\* UnstrandedCountsBuffer::content: forward: None, reverse: None, unstranded: Some(&self.buffer)
content(buffer, ptr) ==
    [forward |-> None, reverse |-> None, unstranded |-> Some([ptr |-> ptr, tallies |-> buffer])]

ReadStrands == {"F", "R"}

NoCall == [op |-> "none", arg |-> 0, resized |-> FALSE]

CbOff ==
    /\ cb_buffer = << >> /\ cb_cap = 0 /\ cb_ptr = 0 /\ cb_n = MaxOps + 1
    /\ cb_last = NoCall
    /\ cb_prev = [last |-> NoCall, buffer |-> << >>, cap |-> 0, ptr |-> 0]
    /\ cb_routes = {}
    /\ cb_resetlen = 0
    /\ cb_content = None

\* UnstrandedCountsBuffer::new(reserve)
CbInit ==
    /\ cb_buffer = << >>
    /\ cb_cap \in 0..MaxLen
    /\ cb_ptr = 0
    /\ cb_n = 0
    /\ cb_last = [op |-> "new", arg |-> cb_cap, resized |-> FALSE]
    /\ cb_prev = [last |-> NoCall, buffer |-> << >>, cap |-> 0, ptr |-> 0]
    /\ cb_routes = {}
    /\ cb_resetlen = 0
    /\ cb_content = None

Snapshot == [last |-> cb_last, buffer |-> cb_buffer, cap |-> cb_cap, ptr |-> cb_ptr]

\* reset(newlen)
CbReset(newlen) ==
    /\ cb_n < MaxOps
    /\ cb_buffer' = reset(cb_buffer, newlen)
    /\ IF NeedsResize(cb_buffer, newlen)
       THEN /\ cb_cap' \in Capacities(cb_cap, newlen)
            /\ cb_ptr' = IF newlen > cb_cap THEN cb_ptr + 1 ELSE cb_ptr
       ELSE UNCHANGED << cb_cap, cb_ptr >>
    /\ cb_last' = [op |-> "reset", arg |-> newlen, resized |-> NeedsResize(cb_buffer, newlen)]
    /\ cb_prev' = Snapshot
    /\ cb_routes' = {}
    /\ cb_resetlen' = newlen
    /\ cb_content' = None
    /\ cb_n' = cb_n + 1
    /\ UNCHANGED << drvVars, seVars, hkVars, edVars, scVars, soVars, vaVars >>

\* A read of the given strand is counted: buffer_for(read), then one more base at
\* the locus pos of the slice (pos = 0: the read covers no locus of the interval).
CbCount(strand, pos) ==
    /\ cb_n < MaxOps
    /\ pos \in 0..Len(cb_buffer)
    /\ pos > 0 => cb_buffer[pos] < MaxCount
    /\ cb_routes' = cb_routes \cup
          {[strand |-> strand, slice |-> buffer_for(strand), ptr |-> cb_ptr,
            len |-> Len(cb_buffer)]}
    /\ cb_buffer' = IF pos > 0 THEN [cb_buffer EXCEPT ![pos] = @ + 1] ELSE cb_buffer
    /\ cb_last' = [op |-> "count", arg |-> pos, resized |-> FALSE]
    /\ cb_prev' = Snapshot
    /\ cb_content' = None
    /\ cb_n' = cb_n + 1
    /\ UNCHANGED << cb_cap, cb_ptr, cb_resetlen >>
    /\ UNCHANGED << drvVars, seVars, hkVars, edVars, scVars, soVars, vaVars >>

\* content()
CbContent ==
    /\ cb_n < MaxOps
    /\ cb_content' = Some(content(cb_buffer, cb_ptr))
    /\ cb_last' = [op |-> "content", arg |-> 0, resized |-> FALSE]
    /\ cb_prev' = Snapshot
    /\ cb_n' = cb_n + 1
    /\ UNCHANGED << cb_buffer, cb_cap, cb_ptr, cb_routes, cb_resetlen >>
    /\ UNCHANGED << drvVars, seVars, hkVars, edVars, scVars, soVars, vaVars >>

CbNext ==
    \/ \E newlen \in 0..MaxLen : CbReset(newlen)
    \/ \E strand \in ReadStrands, pos \in 0..MaxLen : CbCount(strand, pos)
    \/ CbContent

\* ------------------------------------------------------------ stranded counter
ROIBuffers_shared == [forward |-> 1, reverse |-> 1]

\* run: forward and reverse are counters over two buffers, each made by its own
\* ROIBuffer::new(maxwsize); a buffer is named by the order it was made in.
ROIBuffers == [forward |-> 1, reverse |-> 2]

Designs == {"same", "flip"}
Alignments == {"+", "-"}

\* The strand a read belongs to, by the sequencing design.
deduce(design, alignment) ==
    IF (design = "same") = (alignment = "+") THEN "F" ELSE "R"

\* The buffer the stranded counter counts a read of a strand into.
CounterOf(counter, strand) == IF strand = "F" THEN counter.forward ELSE counter.reverse

ScOff ==
    /\ sc_heap = << >> /\ sc_counter = [forward |-> 0, reverse |-> 0] /\ sc_design = "off"
    /\ sc_routes = {} /\ sc_written = [F |-> << >>, R |-> << >>] /\ sc_n = MaxOps + 1

\* StrandedNucCounter::new(forward, reverse, deductor)
ScInit ==
    /\ sc_heap = [b \in {ROIBuffers.forward, ROIBuffers.reverse} |-> << >>]
    /\ sc_counter = ROIBuffers
    /\ sc_design \in Designs
    /\ sc_routes = {}
    /\ sc_written = [F |-> << >>, R |-> << >>]
    /\ sc_n = 0

\* The counter starts a new interval: each of its two counters resets its buffer.
ScReset(newlen) ==
    /\ sc_n < MaxOps
    /\ sc_heap' = [b \in DOMAIN sc_heap |-> reset(sc_heap[b], newlen)]
    /\ sc_written' = [F |-> [i \in 1..newlen |-> Zeros], R |-> [i \in 1..newlen |-> Zeros]]
    /\ sc_routes' = {}
    /\ sc_n' = sc_n + 1
    /\ UNCHANGED << sc_counter, sc_design >>
    /\ UNCHANGED << drvVars, seVars, hkVars, edVars, cbVars, soVars, vaVars >>

\* A read is counted: its strand is deduced, and one more base is counted at the
\* locus pos of the buffer of the counter of that strand.
ScCount(alignment, pos) ==
    /\ sc_n < MaxOps
    /\ LET strand == deduce(sc_design, alignment)
           b == CounterOf(sc_counter, strand)
       IN /\ pos \in 1..Len(sc_heap[b])
          /\ sc_heap[b][pos] < MaxCount
          /\ sc_heap' = [sc_heap EXCEPT ![b][pos] = @ + 1]
          /\ sc_written' = [sc_written EXCEPT ![strand][pos] = @ + 1]
          /\ sc_routes' = sc_routes \cup {[strand |-> strand, buffer |-> b]}
    /\ sc_n' = sc_n + 1
    /\ UNCHANGED << sc_counter, sc_design >>
    /\ UNCHANGED << drvVars, seVars, hkVars, edVars, cbVars, soVars, vaVars >>

ScNext ==
    \/ \E newlen \in 0..MaxLen : ScReset(newlen)
    \/ \E alignment \in Alignments, pos \in 1..MaxLen : ScCount(alignment, pos)

\* ------------------------------------------------------------ record writer
\* Ord::cmp on integers
NumCmp(a, b) == IF a < b THEN "Less" ELSE IF a > b THEN "Greater" ELSE "Equal"

\* Ord::cmp on str: byte by byte, a proper prefix is less
RECURSIVE StrCmp(_, _)
StrCmp(a, b) ==
    IF a = << >> THEN (IF b = << >> THEN "Equal" ELSE "Less")
    ELSE IF b = << >> THEN "Greater"
    ELSE IF Head(a) # Head(b) THEN NumCmp(Head(a), Head(b))
    ELSE StrCmp(Tail(a), Tail(b))

\* Strand::strand_symbol, as the bytes of "+", "-", "."
strand_symbol(strand) ==
    CASE strand = "F" -> << 43 >>
      [] strand = "R" -> << 45 >>
      [] strand = "U" -> << 46 >>

\* A record of a ROIMismatchesVec: the ROI's interval, name and annotated strand.
ROIData(start, end, name, strand) == [start |-> start, end |-> end, name |-> name, strand |-> strand]

\* SerializeROIRef { contig, strand: x.trstrand, data }
SerializeROIRef(x, data) == [contig |-> x.contig, strand |-> x.trstrand, data |-> data]

pos_then_strand_then_name_noend(first, second) ==
    LET o1 == NumCmp(first.data.start, second.data.start)
        o3 == IF o1 = "Equal"
              THEN StrCmp(strand_symbol(first.strand), strand_symbol(second.strand)) ELSE o1
    IN IF o3 = "Equal" THEN StrCmp(first.data.name, second.data.name) ELSE o3

\* fn pos_then_strand_then_name(first, second) -> Ordering
pos_then_strand_then_name(first, second) ==
    LET o1 == NumCmp(first.data.start, second.data.start)
        o2 == IF o1 = "Equal" THEN NumCmp(first.data.end, second.data.end) ELSE o1
        o3 == IF o2 = "Equal"
              THEN StrCmp(strand_symbol(first.strand), strand_symbol(second.strand)) ELSE o2
    IN IF o3 = "Equal" THEN StrCmp(first.data.name, second.data.name) ELSE o3

\* items.iter().flat_map(|x| x.data.iter().map(|data| SerializeROIRef {..}))
flat_map(items) ==
    Flatten([i \in 1..Len(items) |->
                [j \in 1..Len(items[i].data) |-> SerializeROIRef(items[i], items[i].data[j])]])

\* x goes behind every element that is not Greater than it (the sort is stable).
RECURSIVE InsertSorted(_, _)
InsertSorted(sorted, x) ==
    IF sorted = << >> THEN << x >>
    ELSE IF pos_then_strand_then_name(Head(sorted), x) = "Greater" THEN << x >> \o sorted
    ELSE << Head(sorted) >> \o InsertSorted(Tail(sorted), x)

\* .sorted_by(pos_then_strand_then_name)
RECURSIVE sorted_by(_)
sorted_by(seq) ==
    IF seq = << >> THEN << >>
    ELSE InsertSorted(sorted_by(SubSeq(seq, 1, Len(seq) - 1)), seq[Len(seq)])

\* The ROIs of the model: two starts that compare differently as numbers and as
\* text, two ends, names "a", "ab", "b", and both annotated strands.
Rois ==
    { ROIData(2, 5, << 97 >>, "F"),
      ROIData(2, 5, << 97, 98 >>, "R"),
      ROIData(2, 5, << 98 >>, "F"),
      ROIData(2, 6, << 97 >>, "R"),
      ROIData(10, 5, << 97 >>, "F") }

\* ROIMismatchesVec::new(contig, trstrand, data)
ROIMismatchesVecs ==
    [contig : {"chr1"}, trstrand : {"F", "R", "U"}, data : SeqsUpTo(Rois, MaxRois)]

SoOff == so_items = << >> /\ so_pc = "off" /\ so_iter = << >> /\ so_written = << >>

SoInit ==
    /\ so_items \in [1..2 -> ROIMismatchesVecs]
    /\ so_pc = "sort"
    /\ so_iter = << >>
    /\ so_written = << >>

\* let iter = items.iter().flat_map(..).sorted_by(pos_then_strand_then_name);
SoSort ==
    /\ so_pc = "sort"
    /\ so_iter' = sorted_by(flat_map(so_items))
    /\ so_pc' = "write"
    /\ UNCHANGED << so_items, so_written >>
    /\ UNCHANGED << drvVars, seVars, hkVars, edVars, cbVars, scVars, vaVars >>

\* for item in iter { writer.serialize(item)?; } -- the write succeeds
SoWrite ==
    /\ so_pc = "write" /\ so_iter # << >>
    /\ so_written' = Append(so_written, Head(so_iter))
    /\ so_iter' = Tail(so_iter)
    /\ UNCHANGED << so_items, so_pc >>
    /\ UNCHANGED << drvVars, seVars, hkVars, edVars, cbVars, scVars, vaVars >>

\* writer.serialize(item)? -- the write fails and the error is returned
SoWriteFails ==
    /\ so_pc = "write" /\ so_iter # << >>
    /\ so_pc' = "Err"
    /\ UNCHANGED << so_items, so_iter, so_written >>
    /\ UNCHANGED << drvVars, seVars, hkVars, edVars, cbVars, scVars, vaVars >>

\* Ok(())
SoReturn ==
    /\ so_pc = "write" /\ so_iter = << >>
    /\ so_pc' = "Ok"
    /\ UNCHANGED << so_items, so_iter, so_written >>
    /\ UNCHANGED << drvVars, seVars, hkVars, edVars, cbVars, scVars, vaVars >>

SoNext ==
    \/ SoSort
    \/ SoWrite
    \/ SoWriteFails
    \/ SoReturn

\* ------------------------------------------------------------ numeric validator
Ok(v) == << "Ok", v >>
Err == << "Err" >>
is_err(r) == r[1] = "Err"

\* Magnitudes are kept in two limbs << hi, lo >> of five decimal digits each, so
\* that the values around u32::MAX are exact.
Limb == 100000

\* Parsed values: a decimal sign * mag / 10^d, an infinity, or NaN.
Num(sign, mag, d) == [kind |-> "num", sign |-> sign, mag |-> mag, d |-> d]
Inf(sign) == [kind |-> "inf", sign |-> sign, mag |-> << 0, 0 >>, d |-> 0]
NaN == [kind |-> "nan", sign |-> 1, mag |-> << 0, 0 >>, d |-> 0]
Whole(n) == Num(1, << 0, n >>, 0)

RECURSIVE Pow10(_)
Pow10(d) == IF d = 0 THEN 1 ELSE 10 * Pow10(d - 1)

\* a / 10^ad < b / 10^bd on magnitudes; with decimals the magnitudes are below Limb
MagLt(a, ad, b, bd) ==
    IF ad = bd THEN a[1] < b[1] \/ (a[1] = b[1] /\ a[2] < b[2])
    ELSE a[2] * Pow10(bd) < b[2] * Pow10(ad)

\* PartialOrd::lt; every comparison with NaN is false
lt(a, b) ==
    IF a.kind = "nan" \/ b.kind = "nan" THEN FALSE
    ELSE IF a.kind = "inf" THEN a.sign < 0 /\ ~(b.kind = "inf" /\ b.sign < 0)
    ELSE IF b.kind = "inf" THEN b.sign > 0
    ELSE LET sa == IF a.mag = << 0, 0 >> THEN 0 ELSE a.sign
             sb == IF b.mag = << 0, 0 >> THEN 0 ELSE b.sign
         IN IF sa # sb THEN sa < sb
            ELSE IF sa > 0 THEN MagLt(a.mag, a.d, b.mag, b.d)
            ELSE IF sa < 0 THEN MagLt(b.mag, b.d, a.mag, a.d)
            ELSE FALSE

\* PartialOrd::gt
gt(a, b) == lt(b, a)

DigitVal(ch) ==
    CASE ch = "0" -> 0 [] ch = "1" -> 1 [] ch = "2" -> 2 [] ch = "3" -> 3 [] ch = "4" -> 4
      [] ch = "5" -> 5 [] ch = "6" -> 6 [] ch = "7" -> 7 [] ch = "8" -> 8 [] ch = "9" -> 9

IsDigit(ch) == ch \in {"0", "1", "2", "3", "4", "5", "6", "7", "8", "9"}
AllDigits(str) == \A i \in 1..Len(str) : IsDigit(str[i])

\* The magnitude a string of digits denotes.
RECURSIVE DecVal(_)
DecVal(str) ==
    IF str = << >> THEN << 0, 0 >>
    ELSE LET front == DecVal(SubSeq(str, 1, Len(str) - 1))
             lo == 10 * front[2] + DigitVal(str[Len(str)])
         IN << 10 * front[1] + lo \div Limb, lo % Limb >>

\* i32::MAX = 2147483647, -i32::MIN = 2147483648, u32::MAX = 4294967295
I32Max == << 21474, 83647 >>
I32Min == << 21474, 83648 >>
U32Max == << 42949, 67295 >>

\* str::parse::<i32> / str::parse::<u32>: an optional sign ('-' only for the signed
\* type), then at least one digit; a value outside the type is an error
ParseInt(signed, str) ==
    LET hassign == str # << >> /\ (str[1] = "+" \/ (signed /\ str[1] = "-"))
        digits == IF hassign THEN Tail(str) ELSE str
        sign == IF hassign /\ str[1] = "-" THEN 0 - 1 ELSE 1
        mag == DecVal(digits)
        max == IF ~signed THEN U32Max ELSE IF sign < 0 THEN I32Min ELSE I32Max
    IN IF digits = << >> \/ ~AllDigits(digits) \/ Len(digits) > 10 THEN Err
       ELSE IF MagLt(max, 0, mag, 0) THEN Err
       ELSE Ok(Num(sign, mag, 0))

\* str::parse::<f32>: an optional sign, then "nan" or "inf" in any case, or digits
\* with at most one '.', at least one digit in all (exponents are not modelled)
ParseF32(str) ==
    LET hassign == str # << >> /\ str[1] \in {"+", "-"}
        sign == IF hassign /\ str[1] = "-" THEN 0 - 1 ELSE 1
        body == IF hassign THEN Tail(str) ELSE str
        dots == {i \in 1..Len(body) : body[i] = "."}
        dot == IF dots = {} THEN Len(body) + 1 ELSE CHOOSE i \in dots : TRUE
        int == SubSeq(body, 1, dot - 1)
        frac == SubSeq(body, dot + 1, Len(body))
    IN IF body \in {<< "N", "a", "N" >>, << "n", "a", "n" >>} THEN Ok(NaN)
       ELSE IF body \in {<< "i", "n", "f" >>, << "I", "N", "F" >>} THEN Ok(Inf(sign))
       ELSE IF Cardinality(dots) > 1 \/ ~AllDigits(int) \/ ~AllDigits(frac) THEN Err
       ELSE IF int = << >> /\ frac = << >> THEN Err
       ELSE Ok(Num(sign, DecVal(int \o frac), Len(frac)))

\* val.parse::<T>()
parse(T, str) ==
    CASE T = "i32" -> ParseInt(TRUE, str)
      [] T = "u32" -> ParseInt(FALSE, str)
      [] T = "f32" -> ParseF32(str)

\* if integer < low || integer > upper { return Err(..) }
OutOfRange(integer, low, upper) == lt(integer, low) \/ gt(integer, upper)

\* numeric(low, upper), with its type
numeric(T, low, upper) == [T |-> T, low |-> low, upper |-> upper]

\* The validators of the tests and of the command line.
Validators ==
    { numeric("i32", Whole(10), Whole(12)),
      numeric("i32", Whole(10), Whole(10)),
      numeric("u32", Whole(0), Num(1, U32Max, 0)),
      numeric("f32", Whole(0), Whole(1)) }

Chars == {"0", "1", "2", "3", "9", "+", "-", ".", "x"}

\* The strings the validators are called with: every short string over Chars, the
\* values around u32::MAX, and the spellings of the special floats.
Vals ==
    SeqsUpTo(Chars, MaxChars)
        \cup { << "4", "2", "9", "4", "9", "6", "7", "2", "9", "5" >>,
               << "4", "2", "9", "4", "9", "6", "7", "2", "9", "6" >>,
               << "N", "a", "N" >>, << "n", "a", "n" >>, << "-", "N", "a", "N" >>,
               << "i", "n", "f" >>, << "-", "i", "n", "f" >> }

VaOff ==
    /\ va_validator = << >> /\ va_val = << >> /\ va_pc = "off"
    /\ va_integer = << >> /\ va_result = "none"

VaInit ==
    /\ va_validator \in Validators
    /\ va_val \in Vals
    /\ va_pc = "parse"
    /\ va_integer = << >>
    /\ va_result = "none"

\* let integer = val.parse::<T>();
VaParse ==
    /\ va_pc = "parse"
    /\ va_integer' = parse(va_validator.T, va_val)
    /\ va_pc' = "is_err"
    /\ UNCHANGED << va_validator, va_val, va_result >>
    /\ UNCHANGED << drvVars, seVars, hkVars, edVars, cbVars, scVars, soVars >>

\* if integer.is_err() { return Err(format!("failed to io {}", val)); }
VaFailed ==
    /\ va_pc = "is_err" /\ is_err(va_integer)
    /\ va_result' = "Err"
    /\ va_pc' = "done"
    /\ UNCHANGED << va_validator, va_val, va_integer >>
    /\ UNCHANGED << drvVars, seVars, hkVars, edVars, cbVars, scVars, soVars >>

\* let integer = integer.unwrap(); the range check; Ok(())
VaRange ==
    /\ va_pc = "is_err" /\ ~is_err(va_integer)
    /\ va_result' = IF OutOfRange(va_integer[2], va_validator.low, va_validator.upper)
                     THEN "Err" ELSE "Ok"
    /\ va_pc' = "done"
    /\ UNCHANGED << va_validator, va_val, va_integer >>
    /\ UNCHANGED << drvVars, seVars, hkVars, edVars, cbVars, scVars, soVars >>

VaNext ==
    \/ VaParse
    \/ VaFailed
    \/ VaRange

\* ------------------------------------------------------------ specifications
vars == << drvVars, seVars, hkVars, edVars, cbVars, scVars, soVars, vaVars >>

Init == DrvInit /\ SeOff /\ HkOff /\ EdOff /\ CbOff /\ ScOff /\ SoOff /\ VaOff

Next == DrvNext

Spec == Init /\ [][Next]_vars

\* The drivers under a scheduler that lets the run go on: the pool keeps running
\* its workers and the calling thread is not suspended for ever, so some step that
\* can be taken is eventually taken.
Fairness == WF_vars(Next)

SpecFair == Init /\ [][Next]_vars /\ Fairness

StrandInit == DrvOff /\ SeInit /\ HkOff /\ EdOff /\ CbOff /\ ScOff /\ SoOff /\ VaOff

StrandNext == SeNext

SpecStrand == StrandInit /\ [][StrandNext]_vars

HooksInit == DrvOff /\ SeOff /\ HkInit /\ EdOff /\ CbOff /\ ScOff /\ SoOff /\ VaOff

HooksNext == HkNext

SpecHooks == HooksInit /\ [][HooksNext]_vars

EditingInit == DrvOff /\ SeOff /\ HkOff /\ EdInit /\ CbOff /\ ScOff /\ SoOff /\ VaOff

EditingNext == EdNext

SpecEditing == EditingInit /\ [][EditingNext]_vars

BufferInit == DrvOff /\ SeOff /\ HkOff /\ EdOff /\ CbInit /\ ScOff /\ SoOff /\ VaOff

BufferNext == CbNext

SpecBuffer == BufferInit /\ [][BufferNext]_vars

StrandedInit == DrvOff /\ SeOff /\ HkOff /\ EdOff /\ CbOff /\ ScInit /\ SoOff /\ VaOff

StrandedNext == ScNext

SpecStranded == StrandedInit /\ [][StrandedNext]_vars

SortInit == DrvOff /\ SeOff /\ HkOff /\ EdOff /\ CbOff /\ ScOff /\ SoInit /\ VaOff

SortNext == SoNext

SpecSort == SortInit /\ [][SortNext]_vars

ValidateInit == DrvOff /\ SeOff /\ HkOff /\ EdOff /\ CbOff /\ ScOff /\ SoOff /\ VaInit

ValidateNext == VaNext

SpecValidate == ValidateInit /\ [][ValidateNext]_vars

\* ================================================================ claims
Busy(t) == cur[t].pc \notin {"idle", "dead"}
Worked(t) == \E w \in Items : t \in Range(takers[w])
IsRoi == cfg.mode = "roi"
AfterDissolve == IsRoi /\ mainpc \in {"mapped", "stats", "finish", "done"}

\* C1: no Run Context is ever used by two workers at once, a context is touched
\* only by the worker that created it, no borrow_mut ever fails, and the borrow a
\* worker took for an item is released before it takes its next item.
C1_ExclusiveContext ==
    /\ panicked # "borrow_mut"
    /\ \A t \in Threads : Busy(t) => IsSome(ctxstore[t]) /\ Unwrap(ctxstore[t]).creator = t
    /\ \A t \in Threads : cur[t].pc = "idle" /\ IsSome(ctxstore[t]) => ~Unwrap(ctxstore[t]).borrowed
    /\ \A slot \in Threads : IsSome(ctxstore[slot]) =>
          LET c == Unwrap(ctxstore[slot])
              holders == {t \in Threads : Busy(t) /\ t \in c.users}
          IN /\ c.users \subseteq {c.creator}
             /\ Cardinality(holders) <= 1
             /\ c.borrowed <=> holders # {}

\* A worker holds the borrow for its second item on the context it used before.
C1_Witness ==
    \E t \in Threads, w \in Items :
        /\ Busy(t) /\ cur[t].item # w
        /\ takers[w] = << t >> /\ IsSome(results[w])
        /\ Unwrap(ctxstore[t]).borrowed

\* C2: the factory is called once on a worker, at its first request, and never on a
\* worker that is given no item; every later request returns that same context;
\* dissolve() yields exactly one context per worker that was given an item.
C2_LazyPerThread ==
    /\ \A t \in Threads : factoryCalls[t] = IF Worked(t) THEN 1 ELSE 0
    /\ mainpc \in {"par", "dissolve"} => \A t \in Threads : IsSome(ctxstore[t]) <=> Worked(t)
    /\ AfterDissolve =>
          /\ Len(dissolved) = Cardinality({t \in Threads : Worked(t)})
          /\ {dissolved[i].creator : i \in 1..Len(dissolved)} = {t \in Threads : Worked(t)}
          /\ Len(dissolved) <= NThreads /\ Len(dissolved) <= Len(workload)
          /\ \A i \in 1..Len(dissolved) :
                dissolved[i].mapped =
                    SumSeq([w \in Items |->
                               IF takers[w] = << dissolved[i].creator >> THEN workload[w].reads ELSE 0])

\* One worker was given every item: one factory call, one context dissolved.
C2_Witness ==
    /\ AfterDissolve
    /\ Len(dissolved) = 1
    /\ \A w \in Items : takers[w] = << dissolved[1].creator >>
    /\ dissolved[1].mapped > 0

\* C3: dissolve, the sum of the mapped reads, combine and the finish callback happen
\* only after every item's closure has returned (its callback included); no worker
\* holds a context by then.
C3_JoinBarrier ==
    (mainpc # "par" \/ dissolved # << >> \/ finishCalls # << >> \/ mapped # 0 \/ stats # None) =>
        /\ mainpc # "par"
        /\ \A w \in Items : IsSome(results[w]) /\ Len(iterCalls[w]) >= 1
        /\ \A t \in Threads : cur[t].pc = "idle"
        /\ \A slot \in Threads : IsSome(ctxstore[slot]) => ~Unwrap(ctxstore[slot]).borrowed

\* The contexts of two workers are about to be dissolved.
C3_Witness ==
    /\ mainpc = "dissolve"
    /\ \A t \in Threads : Worked(t) /\ IsSome(ctxstore[t])

\* C4: every item is given to exactly one worker, once, and the per-item callback
\* is called exactly once per item, also for an item with an empty result.
C4_ExactlyOnce ==
    /\ \A w \in Items : Len(takers[w]) <= 1 /\ Len(iterCalls[w]) <= 1
    /\ \A w \in Items : IsSome(results[w]) => Len(takers[w]) = 1 /\ Len(iterCalls[w]) = 1
    /\ mainpc = "done" =>
          /\ \A w \in Items : IsSome(results[w])
          /\ SumSeq([w \in Items |-> Len(iterCalls[w])]) = Len(workload)

\* The callback was called, with no records, for an item without content.
C4_Witness ==
    /\ mainpc = "done"
    /\ cfg.mode = "rada"
    /\ \E w \in Items : ~IsSome(workload[w].content) /\ iterCalls[w] = << << >> >>

\* C5: the finish callback is called exactly once, with the accepted records of
\* all items and with the sum of the mapped reads of the dissolved contexts.
C5_FinishOnce ==
    /\ Len(finishCalls) = IF mainpc = "done" THEN 1 ELSE 0
    /\ mainpc = "done" =>
          finishCalls[1].records = Flatten([w \in Items |-> Unwrap(results[w])])
    /\ mainpc = "done" /\ IsRoi =>
          LET built == Flatten([w \in Items |-> MapSeq(RawRecords(w, workload[w]), ResolveStrand)])
          IN /\ finishCalls[1].records =
                    SelectSeq(built, LAMBDA x : /\ mismatches(x.mm) >= cfg.filter.minmm
                                                /\ coverage(x.mm) >= cfg.filter.mincov)
             /\ finishCalls[1].reads = Some(SumSeq([i \in 1..Len(dissolved) |-> dissolved[i].mapped]))

\* Two contexts were dissolved, one record was accepted and one was rejected.
C5_Witness ==
    /\ mainpc = "done" /\ IsRoi
    /\ Len(dissolved) = 2
    /\ \A i \in 1..2 : dissolved[i].mapped > 0
    /\ Len(finishCalls[1].records) = 1
    /\ \E w \in Items : workload[w].content = Some(Unstranded(TLow))

\* The records built for an item, strands resolved, before any filter.
Built(w) == MapSeq(RawRecords(w, workload[w]), ResolveStrand)

\* The run's filter accepts x.
Passes(x) == mismatches(x.mm) >= cfg.filter.minmm /\ coverage(x.mm) >= cfg.filter.mincov

IsPrefix(a, b) == Len(a) <= Len(b) /\ a = SubSeq(b, 1, Len(a))

C8_Original ==
    \A w \in Items : IsSome(results[w]) => Unwrap(results[w]) = SelectSeq(Built(w), Passes)

\* C8 (amended): every record returned for an item is accepted by the filter, and the
\* records returned are exactly the accepted ones among the records built for it, each
\* once; in run() that is among the built records with a non-zero coverage.
C8_FilterOnly ==
    \A w \in Items : IsSome(results[w]) =>
        LET r == Unwrap(results[w])
            candidates == IF IsRoi THEN Built(w)
                          ELSE SelectSeq(Built(w), LAMBDA x : coverage(x.mm) # 0)
        IN /\ \A i \in 1..Len(r) : Passes(r[i])
           /\ r = SelectSeq(candidates, Passes)
           /\ Cardinality(Range(r)) = Len(r)

\* In run(), a built record with zero coverage was not returned while the other
\* record of its item was, and the filter rejected the covered record of another item.
C8_Witness ==
    /\ ~IsRoi
    /\ \E w1, w2 \in Items :
          /\ IsSome(results[w1]) /\ Len(Unwrap(results[w1])) = 1
          /\ \E x \in Range(Built(w1)) : coverage(x.mm) = 0
          /\ results[w2] = Some(<< >>)
          /\ \E x \in Range(Built(w2)) : coverage(x.mm) # 0 /\ ~Passes(x)

\* C9: per item the steps are, in this order: get the context, count, build and
\* resolve the strands, let the statistic observe, filter, call the per-item
\* callback, return. The statistic sees every built record with its resolved strand;
\* the callback gets the accepted records, which are the ones returned.
C9_StepOrder ==
    IsRoi =>
        \A w \in Items :
            /\ IsPrefix(steps[w], << "ctx", "count", "strand", "stat", "filter", "oniter", "return" >>)
            /\ IsSome(statSeen[w]) =>
                  /\ Unwrap(statSeen[w]) = Built(w)
                  /\ \A x \in Range(Unwrap(statSeen[w])) : x.strand = "U" => roipred(x.mm) = "U"
            /\ iterCalls[w] # << >> => iterCalls[w][1] = SelectSeq(Built(w), Passes)
            /\ IsSome(results[w]) => iterCalls[w] = << Unwrap(results[w]) >>

\* An item went through all steps; its statistic saw a record whose strand had been
\* resolved, a record the filter then rejected for another item.
C9_Witness ==
    /\ IsRoi /\ cfg.dostat
    /\ \E w \in Items :
          /\ steps[w] = StepOrder
          /\ \E x \in Range(Unwrap(statSeen[w])) : x.slice = "U" /\ x.strand = "F"
    /\ \E w \in Items :
          /\ IsSome(results[w]) /\ IsSome(statSeen[w])
          /\ Len(Unwrap(results[w])) < Len(Unwrap(statSeen[w]))

\* C7: in on_finish every statistic observes the whole batch before any filter
\* runs, so a record a filter rejects was observed by every statistic, and each
\* statistic's total is the total of the unfiltered batch; likewise in doiter.
C7_StatsBeforeFilters ==
    /\ \A i, j \in 1..Len(hk_log) : hk_log[i].kind = "filter" /\ hk_log[j].kind = "stat" => j < i
    /\ (\E i \in 1..Len(hk_log) : hk_log[i].kind = "filter") =>
          \A k \in 1..Len(hk_stats) : IsSome(hk_seen[k])
    /\ \A k \in 1..Len(hk_stats) :
          IF IsSome(hk_seen[k])
          THEN /\ Unwrap(hk_seen[k]) = hk_input
               /\ hk_stats[k] = StatProcessAll(StatDefault, hk_input)
          ELSE hk_stats[k] = StatDefault
    /\ dh_pc = "stat" => dh_res = hk_input
    /\ (dh_pc \in {"filter", "done"} /\ IsSome(dh_stat)) =>
          Unwrap(dh_stat) = StatProcessAll(StatDefault, hk_input)

\* on_finish and doiter are done: two statistics observed a record that a filter
\* then rejected.
C7_Witness ==
    /\ dh_pc = "done"
    /\ hk_i > Len(hk_stats) + Len(hk_filters)
    /\ Len(hk_stats) >= 2 /\ Len(hk_filters) >= 1
    /\ Len(hk_batch) < Len(hk_input)
    /\ Len(dh_res) < Len(hk_input)
    /\ IsSome(dh_stat) /\ Unwrap(dh_stat).U + Unwrap(dh_stat).F + Unwrap(dh_stat).R = Len(hk_input)

\* C10: a record that is Forward or Reverse is never given to a predictor and is
\* emitted as it came, by the stranding engine and by the drivers.
C10_StrandedUntouched ==
    LET fixed == SelectSeq(se_items, LAMBDA x : x.strand # "U")
    IN /\ \A k \in 1..Len(se_calls) : \A x \in Range(se_calls[k].batch) : x.strand = "U"
       /\ se_pc \in {"loop", "done"} =>
             /\ IsPrefix(fixed, se_result)
             /\ \A i \in 1..Len(se_result) :
                   (\E j \in 1..Len(fixed) : fixed[j].id = se_result[i].id) => i <= Len(fixed)
       /\ \A x \in di_calls : x.strand = "U"
       /\ \A i \in 1..di_k : se_items[i].strand # "U" => di_out[i] = se_items[i]

\* The engine and the driver are done with a batch that holds a Forward record the
\* editing predictor would call Reverse, and the editing predictor was called.
C10_Witness ==
    /\ se_pc = "done"
    /\ di_k = Len(se_items)
    /\ \E x \in Range(se_items) : x.strand = "F" /\ roipred(x.mm) = "R"
    /\ \E k \in 1..Len(se_calls) : se_predictors[se_calls[k].predictor] = "editing"
    /\ di_calls # {}

\* ---------------------------------------------------------------------------
\* The strand a predictor calls for one record.
CallOf(kind, x) == IF kind = "editing" THEN roipred(x.mm) ELSE x.hint

\* The first call that is not Unknown among the predictors i.. of a list, else Unknown.
RECURSIVE FirstCall(_, _, _)
FirstCall(preds, i, x) ==
    IF i > Len(preds) THEN "U"
    ELSE IF CallOf(preds[i], x) # "U" THEN CallOf(preds[i], x)
    ELSE FirstCall(preds, i + 1, x)

Ids(batch) == {batch[i].id : i \in 1..Len(batch)}
OnceEach(batch) == \A i, j \in 1..Len(batch) : batch[i].id = batch[j].id => i = j

\* C11: the stranding engine never drops a record. Whatever its predictors (none
\* included), while it runs every input record is held once, either among the
\* unknown or among the emitted ones; when it is done every input record is emitted
\* once, with its tally, the output is as long as the input, and a record that was
\* still Unknown after the last predictor is emitted with strand Unknown.
C11_NeverDrops ==
    /\ se_pc = "loop" =>
          /\ OnceEach(se_unknown \o se_result)
          /\ Ids(se_unknown \o se_result) = 1..Len(se_items)
    /\ se_pc = "done" =>
          /\ Len(se_result) = Len(se_items)
          /\ OnceEach(se_result)
          /\ Ids(se_result) = 1..Len(se_items)
          /\ \A i \in 1..Len(se_result) :
                LET x == se_result[i]
                IN /\ x.mm = se_items[x.id].mm /\ x.hint = se_items[x.id].hint
                   /\ se_items[x.id].strand # "U" => x.strand = se_items[x.id].strand
          /\ \A i \in 1..Len(se_unknown) :
                \E j \in 1..Len(se_result) :
                   se_result[j].id = se_unknown[i].id /\ se_result[j].strand = "U"

\* The engine is done: its predictors were called, one record was resolved and
\* another one stayed Unknown after the last predictor and is emitted as Unknown.
C11_Witness ==
    /\ se_pc = "done"
    /\ Len(se_calls) = Len(se_predictors) /\ Len(se_calls) >= 1
    /\ se_unknown # << >>
    /\ \E i \in 1..Len(se_result) :
          se_result[i].strand # "U" /\ se_items[se_result[i].id].strand = "U"

\* C12: the predictors are applied in the order they were added, each one to the
\* records that are still Unknown after all the earlier ones and to no other; a
\* record is emitted with the call of the first predictor that resolves it.
C12_PredictorOrder ==
    /\ \A k \in 1..Len(se_calls) :
          /\ se_calls[k].predictor = k
          /\ se_calls[k].kind = se_predictors[k]
          /\ \A x \in Range(se_calls[k].batch) :
                /\ se_items[x.id].strand = "U"
                /\ \A j \in 1..(k - 1) : CallOf(se_predictors[j], se_items[x.id]) = "U"
          /\ \A i \in 1..Len(se_items) :
                (/\ se_items[i].strand = "U"
                 /\ \A j \in 1..(k - 1) : CallOf(se_predictors[j], se_items[i]) = "U")
                => \E x \in Range(se_calls[k].batch) : x.id = i
    /\ se_pc = "done" =>
          \A i \in 1..Len(se_result) :
             LET x == se_result[i]
             IN se_items[x.id].strand = "U" =>
                   x.strand = FirstCall(se_predictors, 1, se_items[x.id])

\* Two predictors that disagree on a record were both called: the record is emitted
\* with the call of the first one, and the second one saw only what was left.
C12_Witness ==
    /\ se_pc = "done"
    /\ Len(se_calls) = 2
    /\ se_predictors[1] # se_predictors[2]
    /\ Len(se_calls[2].batch) < Len(se_calls[1].batch)
    /\ \E i \in 1..Len(se_result) :
          LET x == se_result[i]
          IN /\ se_items[x.id].strand = "U"
             /\ CallOf(se_predictors[1], x) # "U" /\ CallOf(se_predictors[2], x) # "U"
             /\ CallOf(se_predictors[1], x) # CallOf(se_predictors[2], x)
             /\ x.strand = CallOf(se_predictors[1], x)

\* ---------------------------------------------------------------------------
\* The two channels of a tally as exact fractions: a2g = AG / (AA + AG) and
\* t2c = TC / (TT + TC), compared by cross-multiplication.
RatioGt(x, xcov, y, ycov) == x * ycov > y * xcov

\* A channel qualifies, in exact arithmetic, against the thresholds minmm and num / den.
Qualifies(thr, matches, mism) ==
    /\ matches + mism > 0
    /\ mism >= thr[1]
    /\ mism * thr[3] >= thr[2] * (matches + mism)

\* C13: the call of roipred for a region. Only A->G qualifies: Forward; only T->C:
\* Reverse; neither: Unknown; both: the channel with the strictly greater ratio
\* mismatches / (matches + mismatches) wins, and equal ratios give Unknown.
C13_RoiCall ==
    IsSome(ed_roi) =>
        LET a2g == Unwrap(ed_a2g)
            t2c == Unwrap(ed_t2c)
            acov == ed_mm.AA + ed_mm.AG
            tcov == ed_mm.TT + ed_mm.TC
        IN Unwrap(ed_roi) =
              CASE a2g /\ ~t2c -> "F"
                [] ~a2g /\ t2c -> "R"
                [] ~a2g /\ ~t2c -> "U"
                [] OTHER -> IF RatioGt(ed_mm.AG, acov, ed_mm.TC, tcov) THEN "F"
                            ELSE IF RatioGt(ed_mm.TC, tcov, ed_mm.AG, acov) THEN "R"
                            ELSE "U"

C15_SiteCall ==
    IsSome(ed_alleles) =>
        \A i \in 1..Len(ed_prednuc) :
           LET call == Unwrap(ed_alleles)[i]
               n == ed_prednuc[i]
           IN /\ n = "A" => /\ call \in {"F", "U"}
                            /\ call = "F" <=> Qualifies(ed_self, ed_seq.A, ed_seq.G)
              /\ n = "T" => /\ call \in {"R", "U"}
                            /\ call = "R" <=> Qualifies(ed_self, ed_seq.T, ed_seq.C)
              /\ n \in {"C", "G", "N"} => call = "U"

\* A site whose two channels both qualify was called for the references A and C:
\* Forward for A, Unknown for C.
C15_Witness ==
    /\ IsSome(ed_alleles)
    /\ ed_prednuc = Heterozygous("A", "C")
    /\ Qualifies(ed_self, ed_seq.A, ed_seq.G) /\ Qualifies(ed_self, ed_seq.T, ed_seq.C)
    /\ Unwrap(ed_alleles) = <<"F", "U">>

\* The strands the alleles of the site were resolved to (Unknown is no strand).
Resolved == {Unwrap(ed_alleles)[i] : i \in 1..Len(ed_prednuc)} \ {"U"}

\* C16, as stated: a site with a heterozygous reference is given a strand only when
\* the calls of its two alleles are the same strand, and stays Unknown otherwise.
C16_Original ==
    (IsSome(ed_site) /\ Len(ed_prednuc) = 2) =>
        LET s1 == Unwrap(ed_alleles)[1]
            s2 == Unwrap(ed_alleles)[2]
        IN Unwrap(ed_site) = IF s1 # "U" /\ s1 = s2 THEN s1 ELSE "U"

\* C16, amended: a site with a heterozygous reference is given a strand exactly when
\* at least one allele resolves and the alleles that resolve give one and the same
\* strand (an allele that stays Unknown does not count against the other one); the
\* site is given that strand, and stays Unknown in every other case.
C16_HeterozygousAgree ==
    (IsSome(ed_site) /\ Len(ed_prednuc) = 2) =>
        /\ Unwrap(ed_site) # "U" <=> Cardinality(Resolved) = 1
        /\ Unwrap(ed_site) # "U" => Unwrap(ed_site) \in Resolved

\* A site with the reference (C, T) whose T->C channel qualifies: only the second
\* allele resolves, and the site is called Reverse.
C16_Witness ==
    /\ ed_prednuc = Heterozygous("C", "T")
    /\ ed_alleles = Some(<<"U", "R">>)
    /\ ed_site = Some("R")

\* C17: exchanging the A->G channel with the T->C channel turns a Forward call of
\* roipred into Reverse, a Reverse call into Forward and leaves Unknown as it is,
\* for all tallies and thresholds; so does, for sitepred, exchanging the reference A
\* and the counts (A, G) with the reference T and the counts (T, C).
C17_Antisymmetric ==
    /\ IsSome(ed_roiswap) => Unwrap(ed_roiswap) = Neg(Unwrap(ed_roi))
    /\ IsSome(ed_swapped) =>
          \A i \in 1..Len(ed_prednuc) : Unwrap(ed_swapped)[i] = Neg(Unwrap(ed_alleles)[i])

\* A region where both channels qualify and A->G has the greater ratio was called
\* Forward, and Reverse once its channels were exchanged.
C17_Witness ==
    /\ ed_a2g = Some(TRUE) /\ ed_t2c = Some(TRUE)
    /\ ed_mm.AG * (ed_mm.TT + ed_mm.TC) > ed_mm.TC * (ed_mm.AA + ed_mm.AG)
    /\ ed_roi = Some("F")
    /\ ed_roiswap = Some("R")

\* C18: after reset(L) the buffer has length exactly L and every tally is zero,
\* whatever its length and its tallies were before (longer, shorter or as long,
\* fresh or written to): no tally written before the reset is visible after it.
C18_ResetClears ==
    cb_last.op = "reset" =>
        /\ Len(cb_buffer) = cb_last.arg
        /\ len(cb_buffer) = cb_last.arg
        /\ \A i \in 1..Len(cb_buffer) : cb_buffer[i] = 0

\* A buffer whose first locus was counted has just been reset to a shorter length
\* that still holds that locus.
C18_Witness ==
    /\ cb_last.op = "reset"
    /\ cb_prev.last.op = "count"
    /\ Len(cb_prev.buffer) > cb_last.arg /\ cb_last.arg >= 1
    /\ cb_prev.buffer[1] > 0

\* C19: reset(L) resizes the storage only if the length changes, and otherwise
\* zeroes it in place (same allocation, same capacity); reset(L) right after
\* reset(L) leaves the buffer as the first call left it.
C19_ResetIdempotent ==
    cb_last.op = "reset" =>
        /\ cb_last.resized <=> Len(cb_prev.buffer) # cb_last.arg
        /\ ~cb_last.resized => cb_ptr = cb_prev.ptr /\ cb_cap = cb_prev.cap
        /\ (cb_prev.last.op = "reset" /\ cb_prev.last.arg = cb_last.arg) =>
              /\ cb_buffer = cb_prev.buffer
              /\ cb_ptr = cb_prev.ptr /\ cb_cap = cb_prev.cap
              /\ ~cb_last.resized

\* A buffer that was counted into has just been reset to the length it had: its
\* tallies are zero again and it was not resized.
C19_Witness ==
    /\ cb_last.op = "reset" /\ ~cb_last.resized
    /\ cb_prev.last.op = "count"
    /\ \E i \in 1..Len(cb_prev.buffer) : cb_prev.buffer[i] > 0
    /\ Len(cb_buffer) = Len(cb_prev.buffer)

\* C20: within one reset cycle every read, whatever its strand, is routed to one
\* and the same slice: the single buffer, in the same allocation, as long as len().
C20_OneSlice ==
    /\ \A r \in cb_routes :
          /\ r.slice = "buffer"
          /\ r.ptr = cb_ptr
          /\ r.len = len(cb_buffer)
    /\ \A r1, r2 \in cb_routes : r1.slice = r2.slice /\ r1.ptr = r2.ptr

\* Since the last reset, to a length that is not zero, a forward read and a reverse
\* read were both routed.
C20_Witness ==
    /\ Len(cb_buffer) > 0
    /\ \E r1, r2 \in cb_routes : r1.strand = "F" /\ r2.strand = "R"

\* C21: content() of an unstranded buffer, in every state: forward and reverse are
\* absent, unstranded is present, it is the buffer itself and as long as len(), which
\* is the length of the last reset; unstranded never comes with forward or reverse.
C21_ContentShape ==
    IsSome(cb_content) =>
        LET c == Unwrap(cb_content)
        IN /\ c.forward = None /\ c.reverse = None
           /\ IsSome(c.unstranded)
           /\ Unwrap(c.unstranded).tallies = cb_buffer
           /\ Unwrap(c.unstranded).ptr = cb_ptr
           /\ Len(Unwrap(c.unstranded).tallies) = len(cb_buffer)
           /\ len(cb_buffer) = cb_resetlen
           /\ ~(IsSome(c.unstranded) /\ (IsSome(c.forward) \/ IsSome(c.reverse)))

\* content() was called on a buffer that was reset to a length that is not zero and
\* then counted into.
C21_Witness ==
    /\ IsSome(cb_content)
    /\ cb_resetlen > 0
    /\ cb_prev.last.op = "count"
    /\ \E i \in 1..Len(cb_buffer) : cb_buffer[i] > 0

RegionA == [reads |-> 3, content |-> Some(Unstranded(TA2G))]
RegionB == [reads |-> 0, content |-> None]

\* C23: a run over one region A (covered, enough mismatches, passes the filters) and
\* regions B with zero coverage outputs exactly one record, the one of A, and
\* reports as mapped reads the reads that contributed to A.
C23_EndToEnd ==
    (/\ finishCalls # << >>
     /\ \E a \in Items : workload[a] = RegionA /\ \A w \in Items \ {a} : workload[w] = RegionB)
    => LET a == CHOOSE w \in Items : workload[w] = RegionA
           out == finishCalls[1]
       IN /\ Len(finishCalls) = 1
          /\ Len(out.records) = 1
          /\ out.records[1].item = a
          /\ out.records[1].mm = TA2G
          /\ out.records[1].strand = "F"
          /\ IsRoi => out.reads = Some(RegionA.reads)

\* The run over [A, B] has finished under the default filter, the two regions
\* having been processed by two different workers.
C23_Witness ==
    /\ finishCalls # << >>
    /\ IsRoi /\ cfg.filter = OutFilter(OutMinMismatches, OutMinCoverage)
    /\ Len(workload) = 2
    /\ workload[1] = RegionA /\ workload[2] = RegionB
    /\ takers[1] # takers[2]
    /\ Len(finishCalls[1].records) = 1

\* The records returned for item w that came from the given slice of its content.
ReturnedFrom(w, slice) == SelectSeq(Unwrap(results[w]), LAMBDA x : x.slice = slice)

\* C24: in run() a degenerate item never aborts the run: an item without content
\* returns an empty record list, a per-strand summary with zero coverage is never
\* returned (even under a filter that accepts it), a covered summary whose strand
\* no predictor resolves is returned with strand Unknown when the filter accepts it,
\* and by the time the finish callback is called every item has been processed.
C24_Degenerate ==
    cfg.mode = "rada" =>
        /\ panicked = "no"
        /\ finishCalls # << >> => \A w \in Items : IsSome(results[w]) /\ iterCalls[w] = << Unwrap(results[w]) >>
        /\ \A w \in Items : IsSome(results[w]) =>
              LET reported == workload[w].content
                  returned == Unwrap(results[w])
              IN /\ ~IsSome(reported) => returned = << >>
                 /\ \A i \in 1..Len(returned) : coverage(returned[i].mm) > 0
                 /\ IsSome(reported) =>
                       LET u == Unwrap(reported).unstranded
                       IN (/\ IsSome(u)
                           /\ coverage(Unwrap(u)) > 0
                           /\ roipred(Unwrap(u)) = "U"
                           /\ mismatches(Unwrap(u)) >= cfg.filter.minmm
                           /\ coverage(Unwrap(u)) >= cfg.filter.mincov)
                          => ReturnedFrom(w, "U") = << Rec(w, "U", "U", Unwrap(u)) >>

\* A finished run() under a filter that accepts everything, over an item whose
\* reverse counts have zero coverage and an item whose strand stays unresolved.
C24_Witness ==
    /\ cfg.mode = "rada" /\ cfg.filter = OutFilter(0, 0)
    /\ finishCalls # << >>
    /\ Len(workload) = 2
    /\ workload[1].content = Some(Stranded(TT2C, TZero))
    /\ workload[2].content = Some(Unstranded(TLow))
    /\ Len(Unwrap(results[1])) = 1
    /\ Unwrap(results[2]) = << Rec(2, "U", "U", TLow) >>

\* C28: for a site with a heterozygous reference, when exactly one of the two
\* alleles resolves the site gets that allele's strand, when the two alleles resolve
\* to opposite strands the site stays Unknown, and when neither resolves it stays
\* Unknown.
C28_HeterozygousCases ==
    (IsSome(ed_site) /\ Len(ed_prednuc) = 2) =>
        LET s1 == Unwrap(ed_alleles)[1]
            s2 == Unwrap(ed_alleles)[2]
            site == Unwrap(ed_site)
        IN /\ (s1 \in {"F", "R"} /\ s2 = "U") => site = s1
           /\ (s1 = "U" /\ s2 \in {"F", "R"}) => site = s2
           /\ {s1, s2} = {"F", "R"} => site = "U"
           /\ (s1 = "U" /\ s2 = "U") => site = "U"

\* A site with the reference (A, T) where both the A->G and the T->C channel
\* qualify: the alleles resolve to Forward and Reverse, and the site stays Unknown.
C28_Witness ==
    /\ ed_prednuc = Heterozygous("A", "T")
    /\ ed_alleles = Some(<<"F", "R">>)
    /\ ed_site = Some("U")

\* The contexts that exist: the ones in the store and the ones dissolve() yielded.
LiveCtxs == {Unwrap(ctxstore[t]) : t \in {u \in Threads : IsSome(ctxstore[u])}} \cup Range(dissolved)

\* The number of contexts the factory has created.
Created == SumSeq([t \in 1..NThreads |-> factoryCalls[t]])

\* C30: when statistics are requested every context holds a statistic, so the
\* unwrap on the dissolved contexts never fails, and the partials handed to combine
\* are as many as the contexts that were created; when they are not requested no
\* context holds a statistic, no record is passed to one, and no statistic is returned.
C30_StatPresence ==
    IsRoi =>
        /\ panicked # "unwrap"
        /\ cfg.dostat =>
              /\ \A c \in LiveCtxs : IsSome(c.stat)
              /\ mainpc \in {"finish", "done"} =>
                    /\ Len(dissolved) = Created
                    /\ stats = Some(combine([i \in 1..Len(dissolved) |-> dissolved[i].stat[1]]))
        /\ ~cfg.dostat =>
              /\ \A c \in LiveCtxs : c.stat = None
              /\ \A w \in Items : statSeen[w] = None
              /\ stats = None

\* A finished run with statistics in which two contexts were created, one of which
\* observed no record, and both partials were combined.
C30_Witness ==
    /\ IsRoi /\ cfg.dostat /\ mainpc = "done"
    /\ Created = 2 /\ Len(dissolved) = 2
    /\ \E i \in 1..2 : dissolved[i].stat = Some(StatDefault)
    /\ stats # Some(StatDefault)

\* How many times x occurs in the sequence.
Occurrences(seq, x) == Cardinality({i \in 1..Len(seq) : seq[i] = x})

\* What a counter that held nothing holds after counting item w.
Alone(w) ==
    LET reported == workload[w].content
        tally(slot) == IF IsSome(reported) /\ IsSome(slot) THEN slot[1] ELSE TZero
    IN IF ~IsSome(reported) THEN [F |-> TZero, R |-> TZero, U |-> TZero]
       ELSE [F |-> tally(reported[1].forward), R |-> tally(reported[1].reverse),
             U |-> tally(reported[1].unstranded)]

\* What one worker that processes the items one after the other outputs.
SequentialRecords == SelectSeq(Flatten([w \in Items |-> Built(w)]), Passes)
SequentialReads == SumSeq([w \in Items |-> workload[w].reads])

\* C29: the results do not depend on the scheduling: after an item is counted the
\* context's counter holds the tallies of that item alone, whatever the context
\* processed before, and when the run has finished the multiset of the accepted
\* records and the total of the mapped reads are those of a sequential pass over the
\* workload, for every assignment of the items to the workers.
C29_ScheduleFree ==
    IsRoi =>
        /\ \A t \in Threads :
              cur[t].pc \in {"strand", "stat", "filter", "oniter", "return"} =>
                  MyCtx(t).held = Alone(cur[t].item)
        /\ finishCalls # << >> =>
              /\ \A x \in Range(finishCalls[1].records) \cup Range(SequentialRecords) :
                    Occurrences(finishCalls[1].records, x) = Occurrences(SequentialRecords, x)
              /\ finishCalls[1].reads = Some(SequentialReads)

\* One worker processed both items, the second on the counter that had held the
\* first item's tallies in the same slice, and both records were accepted.
C29_Witness ==
    /\ IsRoi /\ finishCalls # << >>
    /\ Len(workload) = 2
    /\ takers[1] = takers[2]
    /\ workload[1].content = Some(Unstranded(TLow))
    /\ workload[2].content = Some(Unstranded(TA2G))
    /\ Len(finishCalls[1].records) = 2
    /\ finishCalls[1].reads = Some(4)

\* The four keys of a written record: start, end, the rank of its strand symbol
\* ("+" before "-" before ".") and the rank of its name ("a" before "ab" before "b").
KeyOf(x) ==
    << x.data.start, x.data.end,
       CASE x.strand = "F" -> 1 [] x.strand = "R" -> 2 [] x.strand = "U" -> 3,
       CASE x.data.name = << 97 >> -> 1 [] x.data.name = << 97, 98 >> -> 2 [] x.data.name = << 98 >> -> 3 >>

\* k1 is not behind k2: ascending start, then end, then strand symbol, then name.
KeyLe(k1, k2) ==
    \/ k1[1] < k2[1]
    \/ k1[1] = k2[1] /\ k1[2] < k2[2]
    \/ k1[1] = k2[1] /\ k1[2] = k2[2] /\ k1[3] < k2[3]
    \/ k1[1] = k2[1] /\ k1[2] = k2[2] /\ k1[3] = k2[3] /\ k1[4] <= k2[4]

\* The regions passed in, as (item, position in the item).
Regions(items) == {<< i, j >> : i \in 1..Len(items), j \in 1..MaxRois + 1} \cap
                  UNION {{<< i, j >> : j \in 1..Len(items[i].data)} : i \in 1..Len(items)}

\* The items passed in another order: the items exchanged, the regions of each reversed.
Reordered(items) ==
    LET rev(x) == [x EXCEPT !.data = [j \in 1..Len(x.data) |-> x.data[Len(x.data) + 1 - j]]]
    IN { << items[2], items[1] >>, << rev(items[1]), rev(items[2]) >>, << rev(items[2]), rev(items[1]) >> }

\* C25: the records are written in ascending order of start, then end, then strand
\* symbol, then name; every region of every item is written exactly once; and when
\* the records differ pairwise in at least one of the four keys the written sequence
\* is the same for every order in which the items are passed in.
C25_WriteOrder ==
    /\ \A i, j \in 1..Len(so_written) : i < j => KeyLe(KeyOf(so_written[i]), KeyOf(so_written[j]))
    /\ so_pc = "Ok" =>
          /\ Len(so_written) = Cardinality(Regions(so_items))
          /\ LET record(r) == [contig |-> so_items[r[1]].contig,
                                strand |-> so_items[r[1]].trstrand,
                                data |-> so_items[r[1]].data[r[2]]]
             IN \A r \in Regions(so_items) :
                   Occurrences(so_written, record(r)) =
                       Cardinality({q \in Regions(so_items) : record(q) = record(r)})
          /\ (\A i, j \in 1..Len(so_written) : i # j => KeyOf(so_written[i]) # KeyOf(so_written[j]))
                => \A other \in Reordered(so_items) : sorted_by(flat_map(other)) = so_written

\* Four regions of two items were written in an order that is not the order they
\* were passed in; their keys differ pairwise, one pair is decided by the strand
\* symbol alone and one pair by the name alone.
C25_Witness ==
    /\ so_pc = "Ok" /\ Len(so_written) = 4
    /\ so_written # flat_map(so_items)
    /\ \A i, j \in 1..4 : i # j => KeyOf(so_written[i]) # KeyOf(so_written[j])
    /\ \E i \in 1..3 : /\ so_written[i].data = so_written[i + 1].data
                        /\ so_written[i].strand # so_written[i + 1].strand
    /\ \E i \in 1..3 : /\ so_written[i].strand = so_written[i + 1].strand
                        /\ so_written[i].data.start = so_written[i + 1].data.start
                        /\ so_written[i].data.end = so_written[i + 1].data.end
                        /\ so_written[i].data.name # so_written[i + 1].data.name

\* PartialOrd::le on parsed values: a <= b; false when either is NaN.
le(a, b) == a.kind # "nan" /\ b.kind # "nan" /\ ~lt(b, a)

\* C27: the validator numeric(low, upper) accepts a string exactly when it parses
\* as a number v with low <= v <= upper, both bounds included; a string that does
\* not parse or a value outside the range is an error; with low = upper the only
\* value accepted is that one.
C27_Numeric ==
    va_pc = "done" =>
        LET low == va_validator.low
            upper == va_validator.upper
        IN /\ va_result = "Ok" <=>
                 (/\ ~is_err(va_integer)
                  /\ le(low, va_integer[2])
                  /\ le(va_integer[2], upper))
           /\ va_result \in {"Ok", "Err"}
           /\ (va_result = "Ok" /\ le(low, upper) /\ le(upper, low)) =>
                 le(low, va_integer[2]) /\ le(va_integer[2], low)

\* Every item has been processed and the finish callback has been called, once.
Completed ==
    /\ mainpc = "done" /\ panicked = "no"
    /\ \A w \in Items : IsSome(results[w]) /\ steps[w] # << >> /\ steps[w][Len(steps[w])] = "return"
    /\ Len(finishCalls) = 1

\* C26: for a finite workload and workers that finish each item, every item is
\* eventually processed, the parallel phase ends and the finish callback is
\* eventually called; and results are never reported by a run that stopped midway:
\* whenever the finish callback has been called every item has been processed and
\* its records are among the reported ones.
C26_Terminates ==
    /\ <>Completed
    /\ [](finishCalls # << >> =>
            /\ \A w \in Items : IsSome(results[w]) /\ ~Untaken(w)
            /\ \A t \in Threads : cur[t].pc = "idle"
            /\ Len(finishCalls[1].records) = SumSeq([w \in Items |-> Len(Unwrap(results[w]))]))

\* A run() over two items, each processed by another worker, has come to its end
\* with a record of each item reported.
C26_Witness ==
    /\ Completed /\ ~IsRoi
    /\ Len(workload) = 2
    /\ takers[1] # takers[2]
    /\ \A w \in 1..2 : \E i \in 1..Len(finishCalls[1].records) : finishCalls[1].records[i].item = w

\* ---------------------------------------------------------------------------
\* What a predictor call left Unknown.
LeftBy(call) == partition(PredictWith(call.kind, call.batch)).unknown

\* C32: the stranding engine stops calling predictors as soon as no Unknown record
\* is left: no predictor is called with an empty batch, no predictor is called after
\* a call that left nothing Unknown, and none at all for an input without Unknown.
C32_StopsWhenResolved ==
    /\ \A k \in 1..Len(se_calls) : se_calls[k].batch # << >>
    /\ \A k \in 1..(Len(se_calls) - 1) : LeftBy(se_calls[k]) # << >>
    /\ se_pc # "off" /\ (\A x \in Range(se_items) : x.strand # "U") => se_calls = << >>
    /\ se_pc = "done" /\ Len(se_calls) < Len(se_predictors) => se_unknown = << >>

\* The engine is done with two predictors of which only the first was called, since
\* it resolved every Unknown record of the batch.
C32_Witness ==
    /\ se_pc = "done"
    /\ Len(se_predictors) = 2 /\ Len(se_calls) = 1
    /\ LeftBy(se_calls[1]) = << >>
    /\ \E x \in Range(se_items) : x.strand = "U"

\* The part of the output a record of the input goes to: 0 if it came stranded, k if
\* the k-th predictor resolved it, one more than the predictors if none did.
RECURSIVE ResolvedBy(_, _, _)
ResolvedBy(preds, i, x) ==
    IF i > Len(preds) \/ CallOf(preds[i], x) # "U" THEN i ELSE ResolvedBy(preds, i + 1, x)

Part(preds, x) == IF x.strand # "U" THEN 0 ELSE ResolvedBy(preds, 1, x)

\* C33: the output of the stranding engine is the records that came Forward/Reverse,
\* in their input order, then the records resolved by the first predictor, then by
\* the second, and so on, then all records that are still Unknown; the input order
\* is not kept across these parts.
C33_OutputOrder ==
    se_pc = "done" =>
        /\ \A i, j \in 1..Len(se_result) :
              i < j =>
                 LET a == se_items[se_result[i].id]
                     b == se_items[se_result[j].id]
                 IN /\ Part(se_predictors, a) <= Part(se_predictors, b)
                    /\ Part(se_predictors, a) = 0 /\ Part(se_predictors, b) = 0 => a.id < b.id
        /\ \A i \in 1..Len(se_result) :
              se_result[i].strand = "U"
                 <=> Part(se_predictors, se_items[se_result[i].id]) = Len(se_predictors) + 1

\* The engine is done and its output is not in input order: a record that came
\* Unknown and was resolved stands after a record that came after it in the input.
C33_Witness ==
    /\ se_pc = "done"
    /\ \E i, j \in 1..Len(se_result) :
          /\ i < j /\ se_result[i].id > se_result[j].id
          /\ se_result[i].strand # "U" /\ se_result[j].strand # "U"
          /\ se_items[se_result[j].id].strand = "U"

\* ---------------------------------------------------------------------------
\* roipred has reached its (true, true) arm: both channels passed edited().
BothEdited == IsSome(ed_roi) /\ Unwrap(ed_a2g) /\ Unwrap(ed_t2c)

\* roipred: a2g_coverage <= f32::EPSILON && t2c_coverage <= f32::EPSILON, on whole counts
ZeroCoverage(mm) == mm.AA + mm.AG <= 0 /\ mm.TT + mm.TC <= 0

\* In the (true, true) arm both coverages are positive: the zero-coverage branch is
\* not the one taken and both divisions have a non-zero denominator.
CoveredWhenEdited ==
    BothEdited =>
        /\ ed_mm.AA + ed_mm.AG > 0 /\ ed_mm.TT + ed_mm.TC > 0
        /\ ~ZeroCoverage(ed_mm)

\* C34: in roipred, whenever both channels qualify as edited both coverages are
\* strictly positive, so the zero-coverage branch is never taken and no ratio has a
\* zero denominator; with both channels qualifying the call is Unknown only for
\* equal ratios mismatches / (matches + mismatches).
C34_UnknownOnlyOnTie ==
    /\ CoveredWhenEdited
    /\ BothEdited /\ Unwrap(ed_roi) = "U" =>
          ed_mm.AG * (ed_mm.TT + ed_mm.TC) = ed_mm.TC * (ed_mm.AA + ed_mm.AG)

\* C31: with an empty workload no context is ever built and the per-item callback
\* is never called; the finish callback is called at most once, and once the driver
\* is done exactly once, with no records and (process) a mapped-read total of 0;
\* with statistics requested, combine is applied to an empty list of partials.
C31_EmptyWorkload ==
    workload = << >> /\ mainpc # "off" =>
        /\ \A t \in Threads : factoryCalls[t] = 0 /\ ~IsSome(ctxstore[t]) /\ cur[t] = Idle
        /\ dissolved = << >>
        /\ iterCalls = << >> /\ takers = << >> /\ results = << >>
        /\ Len(finishCalls) = IF mainpc = "done" THEN 1 ELSE 0
        /\ mainpc = "done" =>
              /\ finishCalls[1].records = << >>
              /\ finishCalls[1].reads = IF IsRoi THEN Some(0) ELSE None
        /\ IsRoi /\ mainpc \in {"finish", "done"} =>
              /\ StatPartials(dissolved) = << >>
              /\ stats = IF cfg.dostat THEN Some(combine(<< >>)) ELSE None

\* process() over an empty workload with statistics requested has called the finish
\* callback and returned the combination of no partials.
C31_Witness ==
    /\ workload = << >> /\ mainpc = "done"
    /\ IsRoi /\ cfg.dostat
    /\ finishCalls = << [records |-> << >>, reads |-> Some(0)] >>
    /\ stats = Some(StatDefault)

====
